---- MODULE Spec2Model ----
(***************************************************************************)
(* HubSpot -> Airtable UPSERT synchronisation engine.                      *)
(*                                                                         *)
(* The model follows server/services/sync_service.ts (three-tier version,  *)
(* lines 1-644), the Airtable record wrappers of                           *)
(* server/services/airtable_service.ts, the HubSpot gateway and the        *)
(* webhook routes.  Every awaited call of syncDealToProject is one atomic  *)
(* step, so that invocations of different requests interleave exactly at   *)
(* the await points of the code; getDealWithAssociations is one step per   *)
(* request it awaits.  HubSpot is a store of its own: a request is         *)
(* answered with what HubSpot holds, which may have been edited since the  *)
(* last request.                                                           *)
(*                                                                         *)
(* JavaScript values: an optional string that is absent is Undefined, an   *)
(* optional object (T | null, T | undefined) is the empty sequence Null    *)
(* or the one-element sequence <<x>>, an absent record id is NoId.  Text   *)
(* that the code transforms is kept as a sequence of pieces so that the    *)
(* transformation is computed: a deal name is a sequence of characters     *)
(* (trim), a close date a sequence of tokens (split('T')).                 *)
(***************************************************************************)
EXTENDS Integers, Sequences, FiniteSets, TLC

VARIABLES
    cfg,        \* the configuration object the services were loaded with
    hubspot,    \* what HubSpot holds, as its API last answered, and the edits seen
    projects,   \* Airtable table 'Projects'  (sequence of records, id = index)
    clients,    \* Airtable table 'Contacts'
    companies,  \* Airtable table 'Companies'
    req,        \* per request handler: the HTTP request being served
    inv,        \* per request handler: the running syncDealToProject invocation
    hist,       \* per Deal id: the last two completed invocations (history)
    ghost,      \* invocations started so far, Deal ids synced concurrently (history)
    seed        \* per seeding: the running seedDemoData call

vars == <<cfg, hubspot, projects, clients, companies, req, inv, hist, ghost, seed>>

-----------------------------------------------------------------------------
(* Bounds of the model *)

MaxProcs == 2       \* request handlers that may be in flight together
MaxSyncs == 2       \* syncDealToProject invocations per behaviour
MaxBatch == 3        \* payloads in one webhook body
MaxFaults == 1       \* store and gateway calls that fail in a run
MaxEdits == 1        \* edits made in HubSpot that a run observes
MaxSeedFaults == 1   \* seeding requests, other than company creations, that fail
MaxSeedings == 2     \* seedDemoData calls per behaviour

ProcIds == 1..MaxProcs

-----------------------------------------------------------------------------
(* JavaScript value conventions *)

Undefined == "<undefined>"
Null == <<>>
NoId == 0

Some(x) == <<x>>
IsNull(m) == m = <<>>
The(m) == m[1]

\* Object.keys(obj): a Partial<...> object is the sequence of its
\* <<key, value>> pairs in insertion order.
Keys(obj) == [i \in 1..Len(obj) |-> obj[i][1]]
HasKey(obj, k) == \E i \in 1..Len(obj) : obj[i][1] = k
Get(obj, k) == obj[CHOOSE i \in 1..Len(obj) : obj[i][1] = k][2]

RECURSIVE JoinWith(_, _)
\* Array.prototype.join(sep) on an array of strings
JoinWith(parts, sep) ==
    IF parts = <<>> THEN ""
    ELSE IF Len(parts) = 1 THEN parts[1]
    ELSE parts[1] \o sep \o JoinWith(Tail(parts), sep)

RECURSIVE Chars(_)
\* the string spelled by a sequence of characters
Chars(cs) == IF cs = <<>> THEN "" ELSE Head(cs) \o Chars(Tail(cs))

\* WhiteSpace and LineTerminator of the language: space, tab, line feed,
\* carriage return, form feed, vertical tab, no-break space, ogham space
\* mark and zero width no-break space
WhiteSpace ==
    { " ", "\t", "\n", "\r", "\f", "", " ", " ", "﻿" }

\* String.prototype.trim(): the white space at both ends is removed
Trim(cs) ==
    LET RECURSIVE trimStart(_)
        trimStart(rest) ==
            IF rest # <<>> /\ Head(rest) \in WhiteSpace THEN trimStart(Tail(rest)) ELSE rest
        RECURSIVE trimEnd(_)
        trimEnd(rest) ==
            IF rest # <<>> /\ rest[Len(rest)] \in WhiteSpace
            THEN trimEnd(SubSeq(rest, 1, Len(rest) - 1)) ELSE rest
    IN  trimEnd(trimStart(cs))

RECURSIVE BeforeT(_)
\* closeDate.split('T')[0]: the text before the first 'T'
BeforeT(tokens) ==
    IF tokens = <<>> \/ Head(tokens) = "T" THEN ""
    ELSE Head(tokens) \o BeforeT(Tail(tokens))

\* The Unicode default case conversion String.prototype.toLowerCase applies,
\* for the characters a string of the model can hold: `capital` and `small`
\* list each capital with its small letter; `unwritable` are the capitals
\* whose small letter no string of the model can hold; `cased` and
\* `ignorable` are the cased letters and the case-ignorable characters the
\* rule for a capital sigma at the end of a word looks at
UnicodeCase ==
    LET capital ==
            <<
            "A", "B", "C", "D", "E", "F", "G", "H", "I", "J", "K", "L", "M", "N", "O", "P",
            "Q", "R", "S", "T", "U", "V", "W", "X", "Y", "Z", "À", "Á", "Â", "Ã", "Ä", "Å",
            "Æ", "Ç", "È", "É", "Ê", "Ë", "Ì", "Í", "Î", "Ï", "Ð", "Ñ", "Ò", "Ó", "Ô", "Õ",
            "Ö", "Ø", "Ù", "Ú", "Û", "Ü", "Ý", "Þ", "Ƃ", "Ƅ", "Ƈ", "Ƌ", "Ǝ", "Ƒ", "Ƙ", "Ơ",
            "Ƣ", "Ƥ", "Ʀ", "Ƨ", "Ʃ", "Ƭ", "Ʈ", "Ư", "Ʊ", "Ʋ", "Ƴ", "Ƶ", "Ʒ", "Ƹ", "Ƽ", "Ǆ",
            "ǅ", "Ǉ", "ǈ", "Ǌ", "ǋ", "Ǎ", "Ǐ", "Ǒ", "Ǔ", "Ǖ", "Ǘ", "Ǚ", "Ǜ", "Ǟ", "Ǡ", "Ǣ",
            "Ǥ", "Ǧ", "Ǩ", "Ǫ", "Ǭ", "Ǯ", "Ǳ", "ǲ", "Ǵ", "Ƕ", "Ƿ", "Ǹ", "Ǻ", "Ǽ", "Ǿ", "Ά",
            "Έ", "Ή", "Ί", "Ό", "Ύ", "Ώ", "Α", "Β", "Γ", "Δ", "Ε", "Ζ", "Η", "Θ", "Ι", "Κ",
            "Λ", "Μ", "Ν", "Ξ", "Ο", "Π", "Ρ", "Τ", "Υ", "Φ", "Χ", "Ψ", "Ω", "Ϊ", "Ϋ", "Ϗ",
            "Ϙ", "Ϛ", "Ϝ", "Ϟ", "Ϡ", "Ϣ", "Ϥ", "Ϧ", "Ϩ", "Ϫ", "Ϭ", "Ϯ", "ϴ", "Ϸ", "Ϲ", "Ϻ",
            "Ҁ", "Ҋ", "Ҍ", "Ҏ", "Ґ", "Ғ", "Ҕ", "Җ", "Ҙ", "Қ", "Ҝ", "Ҟ", "Ҡ", "Ң", "Ҥ", "Ҧ",
            "Ҩ", "Ҫ", "Ҭ", "Ү", "Ұ", "Ҳ", "Ҵ", "Ҷ", "Ҹ", "Һ", "Ҽ", "Ҿ", "Ӏ", "Ӂ", "Ӄ", "Ӆ",
            "Ӈ", "Ӊ", "Ӌ", "Ӎ", "Ӑ", "Ӓ", "Ӕ", "Ӗ", "Ә", "Ӛ", "Ӝ", "Ӟ", "Ӡ", "Ӣ", "Ӥ", "Ӧ",
            "Ө", "Ӫ", "Ӭ", "Ӯ", "Ӱ", "Ӳ", "Ӵ", "Ӷ", "Ӹ", "Ӻ", "Ӽ", "Ӿ", "Ꮀ", "Ꮁ", "Ꮂ", "Ꮃ",
            "Ꮄ", "Ꮅ", "Ꮆ", "Ꮇ", "Ꮈ", "Ꮉ", "Ꮊ", "Ꮋ", "Ꮌ", "Ꮍ", "Ꮎ", "Ꮏ", "Ꮐ", "Ꮑ", "Ꮒ", "Ꮓ",
            "Ꮔ", "Ꮕ", "Ꮖ", "Ꮗ", "Ꮘ", "Ꮙ", "Ꮚ", "Ꮛ", "Ꮜ", "Ꮝ", "Ꮞ", "Ꮟ", "Ꮠ", "Ꮡ", "Ꮢ", "Ꮣ",
            "Ꮤ", "Ꮥ", "Ꮦ", "Ꮧ", "Ꮨ", "Ꮩ", "Ꮪ", "Ꮫ", "Ꮬ", "Ꮭ", "Ꮮ", "Ꮯ", "Ꮰ", "Ꮱ", "Ꮲ", "Ꮳ",
            "Ꮴ", "Ꮵ", "Ꮶ", "Ꮷ", "Ꮸ", "Ꮹ", "Ꮺ", "Ꮻ", "Ꮼ", "Ꮽ", "Ꮾ", "Ꮿ", "Ᏸ", "Ᏹ", "Ᏺ", "Ᏻ",
            "Ᏼ", "Ᏽ", "Ᲊ", "Ა", "Ბ", "Გ", "Დ", "Ე", "Ვ", "Ზ", "Თ", "Ი", "Კ", "Ლ", "Მ", "Ნ",
            "Ო", "Პ", "Ჟ", "Რ", "Ს", "Ტ", "Უ", "Ფ", "Ქ", "Ღ", "Ყ", "Შ", "Ჩ", "Ც", "Ძ", "Წ",
            "Ჭ", "Ხ", "Ჯ", "Ჰ", "Ჱ", "Ჲ", "Ჳ", "Ჴ", "Ჵ", "Ჶ", "Ჷ", "Ჸ", "Ჹ", "Ჺ", "Ჽ", "Ჾ",
            "Ჿ", "Ẁ", "Ẃ", "Ẅ", "Ẇ", "Ẉ", "Ẋ", "Ẍ", "Ẏ", "Ẑ", "Ẓ", "Ẕ", "ẞ", "Ạ", "Ả", "Ấ",
            "Ầ", "Ẩ", "Ẫ", "Ậ", "Ắ", "Ằ", "Ẳ", "Ẵ", "Ặ", "Ẹ", "Ẻ", "Ẽ", "Ế", "Ề", "Ể", "Ễ",
            "Ệ", "Ỉ", "Ị", "Ọ", "Ỏ", "Ố", "Ồ", "Ổ", "Ỗ", "Ộ", "Ớ", "Ờ", "Ở", "Ỡ", "Ợ", "Ụ",
            "Ủ", "Ứ", "Ừ", "Ử", "Ữ", "Ự", "Ỳ", "Ỵ", "Ỷ", "Ỹ", "Ỻ", "Ỽ", "Ỿ", "ᾈ", "ᾉ", "ᾊ",
            "ᾋ", "ᾌ", "ᾍ", "ᾎ", "ᾏ", "ᾘ", "ᾙ", "ᾚ", "ᾛ", "ᾜ", "ᾝ", "ᾞ", "ᾟ", "ᾨ", "ᾩ", "ᾪ",
            "ᾫ", "ᾬ", "ᾭ", "ᾮ", "ᾯ", "Ᾰ", "Ᾱ", "ᾼ", "ῌ", "Ῐ", "Ῑ", "Ῠ", "Ῡ", "Ῥ", "ῼ", "Ↄ",
            "Ⓐ", "Ⓑ", "Ⓒ", "Ⓓ", "Ⓔ", "Ⓕ", "Ⓖ", "Ⓗ", "Ⓘ", "Ⓙ", "Ⓚ", "Ⓛ", "Ⓜ", "Ⓝ", "Ⓞ", "Ⓟ",
            "Ⓠ", "Ⓡ", "Ⓢ", "Ⓣ", "Ⓤ", "Ⓥ", "Ⓦ", "Ⓧ", "Ⓨ", "Ⓩ", "Ⲁ", "Ⲃ", "Ⲅ", "Ⲇ", "Ⲉ", "Ⲋ",
            "Ⲍ", "Ⲏ", "Ⲑ", "Ⲓ", "Ⲕ", "Ⲗ", "Ⲙ", "Ⲛ", "Ⲝ", "Ⲟ", "Ⲡ", "Ⲣ", "Ⲥ", "Ⲧ", "Ⲩ", "Ⲫ",
            "Ⲭ", "Ⲯ", "Ⲱ", "Ⲳ", "Ⲵ", "Ⲷ", "Ⲹ", "Ⲻ", "Ⲽ", "Ⲿ", "Ⳁ", "Ⳃ", "Ⳅ", "Ⳇ", "Ⳉ", "Ⳋ",
            "Ⳍ", "Ⳏ", "Ⳑ", "Ⳓ", "Ⳕ", "Ⳗ", "Ⳙ", "Ⳛ", "Ⳝ", "Ⳟ", "Ⳡ", "Ⳣ", "Ⳬ", "Ⳮ", "Ⳳ", "Ꚁ",
            "Ꚃ", "Ꚅ", "Ꚇ", "Ꚉ", "Ꚋ", "Ꚍ", "Ꚏ", "Ꚑ", "Ꚓ", "Ꚕ", "Ꚗ", "Ꚙ", "Ꚛ", "Ꞁ", "Ꞃ", "Ꞅ",
            "Ꞇ", "Ꞌ", "Ꞑ", "Ꞓ", "Ꞗ", "Ꞙ", "Ꞛ", "Ꞝ", "Ꞟ", "Ꞡ", "Ꞣ", "Ꞥ", "Ꞧ", "Ꞩ", "Ʞ", "Ʇ",
            "Ʝ", "Ꞵ", "Ꞷ", "Ꞹ", "Ꞻ", "Ꞽ", "Ꞿ", "Ꟁ", "Ꟃ", "Ꞔ", "Ʂ", "Ᶎ", "Ꟈ", "Ꟊ", "Ꟍ", "꟎",
            "Ꟑ", "꟒", "꟔", "Ꟗ", "Ꟙ", "Ꟛ", "Ƛ", "Ꟶ" >>
        small ==
            <<
            "a", "b", "c", "d", "e", "f", "g", "h", "i", "j", "k", "l", "m", "n", "o", "p",
            "q", "r", "s", "t", "u", "v", "w", "x", "y", "z", "à", "á", "â", "ã", "ä", "å",
            "æ", "ç", "è", "é", "ê", "ë", "ì", "í", "î", "ï", "ð", "ñ", "ò", "ó", "ô", "õ",
            "ö", "ø", "ù", "ú", "û", "ü", "ý", "þ", "ƃ", "ƅ", "ƈ", "ƌ", "ǝ", "ƒ", "ƙ", "ơ",
            "ƣ", "ƥ", "ʀ", "ƨ", "ʃ", "ƭ", "ʈ", "ư", "ʊ", "ʋ", "ƴ", "ƶ", "ʒ", "ƹ", "ƽ", "ǆ",
            "ǆ", "ǉ", "ǉ", "ǌ", "ǌ", "ǎ", "ǐ", "ǒ", "ǔ", "ǖ", "ǘ", "ǚ", "ǜ", "ǟ", "ǡ", "ǣ",
            "ǥ", "ǧ", "ǩ", "ǫ", "ǭ", "ǯ", "ǳ", "ǳ", "ǵ", "ƕ", "ƿ", "ǹ", "ǻ", "ǽ", "ǿ", "ά",
            "έ", "ή", "ί", "ό", "ύ", "ώ", "α", "β", "γ", "δ", "ε", "ζ", "η", "θ", "ι", "κ",
            "λ", "μ", "ν", "ξ", "ο", "π", "ρ", "τ", "υ", "φ", "χ", "ψ", "ω", "ϊ", "ϋ", "ϗ",
            "ϙ", "ϛ", "ϝ", "ϟ", "ϡ", "ϣ", "ϥ", "ϧ", "ϩ", "ϫ", "ϭ", "ϯ", "θ", "ϸ", "ϲ", "ϻ",
            "ҁ", "ҋ", "ҍ", "ҏ", "ґ", "ғ", "ҕ", "җ", "ҙ", "қ", "ҝ", "ҟ", "ҡ", "ң", "ҥ", "ҧ",
            "ҩ", "ҫ", "ҭ", "ү", "ұ", "ҳ", "ҵ", "ҷ", "ҹ", "һ", "ҽ", "ҿ", "ӏ", "ӂ", "ӄ", "ӆ",
            "ӈ", "ӊ", "ӌ", "ӎ", "ӑ", "ӓ", "ӕ", "ӗ", "ә", "ӛ", "ӝ", "ӟ", "ӡ", "ӣ", "ӥ", "ӧ",
            "ө", "ӫ", "ӭ", "ӯ", "ӱ", "ӳ", "ӵ", "ӷ", "ӹ", "ӻ", "ӽ", "ӿ", "ꮀ", "ꮁ", "ꮂ", "ꮃ",
            "ꮄ", "ꮅ", "ꮆ", "ꮇ", "ꮈ", "ꮉ", "ꮊ", "ꮋ", "ꮌ", "ꮍ", "ꮎ", "ꮏ", "ꮐ", "ꮑ", "ꮒ", "ꮓ",
            "ꮔ", "ꮕ", "ꮖ", "ꮗ", "ꮘ", "ꮙ", "ꮚ", "ꮛ", "ꮜ", "ꮝ", "ꮞ", "ꮟ", "ꮠ", "ꮡ", "ꮢ", "ꮣ",
            "ꮤ", "ꮥ", "ꮦ", "ꮧ", "ꮨ", "ꮩ", "ꮪ", "ꮫ", "ꮬ", "ꮭ", "ꮮ", "ꮯ", "ꮰ", "ꮱ", "ꮲ", "ꮳ",
            "ꮴ", "ꮵ", "ꮶ", "ꮷ", "ꮸ", "ꮹ", "ꮺ", "ꮻ", "ꮼ", "ꮽ", "ꮾ", "ꮿ", "ᏸ", "ᏹ", "ᏺ", "ᏻ",
            "ᏼ", "ᏽ", "ᲊ", "ა", "ბ", "გ", "დ", "ე", "ვ", "ზ", "თ", "ი", "კ", "ლ", "მ", "ნ",
            "ო", "პ", "ჟ", "რ", "ს", "ტ", "უ", "ფ", "ქ", "ღ", "ყ", "შ", "ჩ", "ც", "ძ", "წ",
            "ჭ", "ხ", "ჯ", "ჰ", "ჱ", "ჲ", "ჳ", "ჴ", "ჵ", "ჶ", "ჷ", "ჸ", "ჹ", "ჺ", "ჽ", "ჾ",
            "ჿ", "ẁ", "ẃ", "ẅ", "ẇ", "ẉ", "ẋ", "ẍ", "ẏ", "ẑ", "ẓ", "ẕ", "ß", "ạ", "ả", "ấ",
            "ầ", "ẩ", "ẫ", "ậ", "ắ", "ằ", "ẳ", "ẵ", "ặ", "ẹ", "ẻ", "ẽ", "ế", "ề", "ể", "ễ",
            "ệ", "ỉ", "ị", "ọ", "ỏ", "ố", "ồ", "ổ", "ỗ", "ộ", "ớ", "ờ", "ở", "ỡ", "ợ", "ụ",
            "ủ", "ứ", "ừ", "ử", "ữ", "ự", "ỳ", "ỵ", "ỷ", "ỹ", "ỻ", "ỽ", "ỿ", "ᾀ", "ᾁ", "ᾂ",
            "ᾃ", "ᾄ", "ᾅ", "ᾆ", "ᾇ", "ᾐ", "ᾑ", "ᾒ", "ᾓ", "ᾔ", "ᾕ", "ᾖ", "ᾗ", "ᾠ", "ᾡ", "ᾢ",
            "ᾣ", "ᾤ", "ᾥ", "ᾦ", "ᾧ", "ᾰ", "ᾱ", "ᾳ", "ῃ", "ῐ", "ῑ", "ῠ", "ῡ", "ῥ", "ῳ", "ↄ",
            "ⓐ", "ⓑ", "ⓒ", "ⓓ", "ⓔ", "ⓕ", "ⓖ", "ⓗ", "ⓘ", "ⓙ", "ⓚ", "ⓛ", "ⓜ", "ⓝ", "ⓞ", "ⓟ",
            "ⓠ", "ⓡ", "ⓢ", "ⓣ", "ⓤ", "ⓥ", "ⓦ", "ⓧ", "ⓨ", "ⓩ", "ⲁ", "ⲃ", "ⲅ", "ⲇ", "ⲉ", "ⲋ",
            "ⲍ", "ⲏ", "ⲑ", "ⲓ", "ⲕ", "ⲗ", "ⲙ", "ⲛ", "ⲝ", "ⲟ", "ⲡ", "ⲣ", "ⲥ", "ⲧ", "ⲩ", "ⲫ",
            "ⲭ", "ⲯ", "ⲱ", "ⲳ", "ⲵ", "ⲷ", "ⲹ", "ⲻ", "ⲽ", "ⲿ", "ⳁ", "ⳃ", "ⳅ", "ⳇ", "ⳉ", "ⳋ",
            "ⳍ", "ⳏ", "ⳑ", "ⳓ", "ⳕ", "ⳗ", "ⳙ", "ⳛ", "ⳝ", "ⳟ", "ⳡ", "ⳣ", "ⳬ", "ⳮ", "ⳳ", "ꚁ",
            "ꚃ", "ꚅ", "ꚇ", "ꚉ", "ꚋ", "ꚍ", "ꚏ", "ꚑ", "ꚓ", "ꚕ", "ꚗ", "ꚙ", "ꚛ", "ꞁ", "ꞃ", "ꞅ",
            "ꞇ", "ꞌ", "ꞑ", "ꞓ", "ꞗ", "ꞙ", "ꞛ", "ꞝ", "ꞟ", "ꞡ", "ꞣ", "ꞥ", "ꞧ", "ꞩ", "ʞ", "ʇ",
            "ʝ", "ꞵ", "ꞷ", "ꞹ", "ꞻ", "ꞽ", "ꞿ", "ꟁ", "ꟃ", "ꞔ", "ʂ", "ᶎ", "ꟈ", "ꟊ", "ꟍ", "꟏",
            "ꟑ", "ꟓ", "ꟕ", "ꟗ", "ꟙ", "ꟛ", "ƛ", "ꟶ" >>
    IN  [capitals |-> { capital[i] : i \in DOMAIN capital },
         lower |-> [c \in { capital[i] : i \in DOMAIN capital } |->
                       small[CHOOSE i \in DOMAIN capital : capital[i] = c]],
         unwritable |->
            {
            "Ɓ", "Ɔ", "Ɖ", "Ɗ", "Ə", "Ɛ", "Ɠ", "Ɣ", "Ɩ", "Ɨ", "Ɯ", "Ɲ", "Ɵ", "Ͻ", "Ͼ", "Ͽ",
            "Ⴀ", "Ⴁ", "Ⴂ", "Ⴃ", "Ⴄ", "Ⴅ", "Ⴆ", "Ⴇ", "Ⴈ", "Ⴉ", "Ⴊ", "Ⴋ", "Ⴌ", "Ⴍ", "Ⴎ", "Ⴏ",
            "Ⴐ", "Ⴑ", "Ⴒ", "Ⴓ", "Ⴔ", "Ⴕ", "Ⴖ", "Ⴗ", "Ⴘ", "Ⴙ", "Ⴚ", "Ⴛ", "Ⴜ", "Ⴝ", "Ⴞ", "Ⴟ",
            "Ⴠ", "Ⴡ", "Ⴢ", "Ⴣ", "Ⴤ", "Ⴥ", "Ⴧ", "Ⴭ", "Ꭰ", "Ꭱ", "Ꭲ", "Ꭳ", "Ꭴ", "Ꭵ", "Ꭶ", "Ꭷ",
            "Ꭸ", "Ꭹ", "Ꭺ", "Ꭻ", "Ꭼ", "Ꭽ", "Ꭾ", "Ꭿ", "Ὰ", "Ά", "Ὲ", "Έ", "Ὴ", "Ή", "Ὶ", "Ί",
            "Ὺ", "Ύ", "Ὸ", "Ό", "Ὼ", "Ώ", "Ɥ", "Ɦ", "Ɜ", "Ɡ", "Ɬ", "Ɪ", "Ꭓ", "Ɤ" },
         cased |->
            {
            "A", "B", "C", "D", "E", "F", "G", "H", "I", "J", "K", "L", "M", "N", "O", "P",
            "Q", "R", "S", "T", "U", "V", "W", "X", "Y", "Z", "a", "b", "c", "d", "e", "f",
            "g", "h", "i", "j", "k", "l", "m", "n", "o", "p", "q", "r", "s", "t", "u", "v",
            "w", "x", "y", "z", "ª", "µ", "º", "À", "Á", "Â", "Ã", "Ä", "Å", "Æ", "Ç", "È",
            "É", "Ê", "Ë", "Ì", "Í", "Î", "Ï", "Ð", "Ñ", "Ò", "Ó", "Ô", "Õ", "Ö", "Ø", "Ù",
            "Ú", "Û", "Ü", "Ý", "Þ", "ß", "à", "á", "â", "ã", "ä", "å", "æ", "ç", "è", "é",
            "ê", "ë", "ì", "í", "î", "ï", "ð", "ñ", "ò", "ó", "ô", "õ", "ö", "ø", "ù", "ú",
            "û", "ü", "ý", "þ", "ÿ", "ƀ", "Ɓ", "Ƃ", "ƃ", "Ƅ", "ƅ", "Ɔ", "Ƈ", "ƈ", "Ɖ", "Ɗ",
            "Ƌ", "ƌ", "ƍ", "Ǝ", "Ə", "Ɛ", "Ƒ", "ƒ", "Ɠ", "Ɣ", "ƕ", "Ɩ", "Ɨ", "Ƙ", "ƙ", "ƚ",
            "ƛ", "Ɯ", "Ɲ", "ƞ", "Ɵ", "Ơ", "ơ", "Ƣ", "ƣ", "Ƥ", "ƥ", "Ʀ", "Ƨ", "ƨ", "Ʃ", "ƪ",
            "ƫ", "Ƭ", "ƭ", "Ʈ", "Ư", "ư", "Ʊ", "Ʋ", "Ƴ", "ƴ", "Ƶ", "ƶ", "Ʒ", "Ƹ", "ƹ", "ƺ",
            "Ƽ", "ƽ", "ƾ", "ƿ", "Ǆ", "ǅ", "ǆ", "Ǉ", "ǈ", "ǉ", "Ǌ", "ǋ", "ǌ", "Ǎ", "ǎ", "Ǐ",
            "ǐ", "Ǒ", "ǒ", "Ǔ", "ǔ", "Ǖ", "ǖ", "Ǘ", "ǘ", "Ǚ", "ǚ", "Ǜ", "ǜ", "ǝ", "Ǟ", "ǟ",
            "Ǡ", "ǡ", "Ǣ", "ǣ", "Ǥ", "ǥ", "Ǧ", "ǧ", "Ǩ", "ǩ", "Ǫ", "ǫ", "Ǭ", "ǭ", "Ǯ", "ǯ",
            "ǰ", "Ǳ", "ǲ", "ǳ", "Ǵ", "ǵ", "Ƕ", "Ƿ", "Ǹ", "ǹ", "Ǻ", "ǻ", "Ǽ", "ǽ", "Ǿ", "ǿ",
            "ʀ", "ʁ", "ʂ", "ʃ", "ʄ", "ʅ", "ʆ", "ʇ", "ʈ", "ʉ", "ʊ", "ʋ", "ʌ", "ʍ", "ʎ", "ʏ",
            "ʐ", "ʑ", "ʒ", "ʓ", "ʖ", "ʗ", "ʘ", "ʙ", "ʚ", "ʛ", "ʜ", "ʝ", "ʞ", "ʟ", "ʠ", "ʡ",
            "ʢ", "ʣ", "ʤ", "ʥ", "ʦ", "ʧ", "ʨ", "ʩ", "ʪ", "ʫ", "ʬ", "ʭ", "ʮ", "ʯ", "Ά", "Έ",
            "Ή", "Ί", "Ό", "Ύ", "Ώ", "ΐ", "Α", "Β", "Γ", "Δ", "Ε", "Ζ", "Η", "Θ", "Ι", "Κ",
            "Λ", "Μ", "Ν", "Ξ", "Ο", "Π", "Ρ", "Σ", "Τ", "Υ", "Φ", "Χ", "Ψ", "Ω", "Ϊ", "Ϋ",
            "ά", "έ", "ή", "ί", "ΰ", "α", "β", "γ", "δ", "ε", "ζ", "η", "θ", "ι", "κ", "λ",
            "μ", "ν", "ξ", "ο", "π", "ρ", "ς", "σ", "τ", "υ", "φ", "χ", "ψ", "ω", "ϊ", "ϋ",
            "ό", "ύ", "ώ", "Ϗ", "ϐ", "ϑ", "ϒ", "ϓ", "ϔ", "ϕ", "ϖ", "ϗ", "Ϙ", "ϙ", "Ϛ", "ϛ",
            "Ϝ", "ϝ", "Ϟ", "ϟ", "Ϡ", "ϡ", "Ϣ", "ϣ", "Ϥ", "ϥ", "Ϧ", "ϧ", "Ϩ", "ϩ", "Ϫ", "ϫ",
            "Ϭ", "ϭ", "Ϯ", "ϯ", "ϰ", "ϱ", "ϲ", "ϳ", "ϴ", "ϵ", "Ϸ", "ϸ", "Ϲ", "Ϻ", "ϻ", "ϼ",
            "Ͻ", "Ͼ", "Ͽ", "Ҁ", "ҁ", "Ҋ", "ҋ", "Ҍ", "ҍ", "Ҏ", "ҏ", "Ґ", "ґ", "Ғ", "ғ", "Ҕ",
            "ҕ", "Җ", "җ", "Ҙ", "ҙ", "Қ", "қ", "Ҝ", "ҝ", "Ҟ", "ҟ", "Ҡ", "ҡ", "Ң", "ң", "Ҥ",
            "ҥ", "Ҧ", "ҧ", "Ҩ", "ҩ", "Ҫ", "ҫ", "Ҭ", "ҭ", "Ү", "ү", "Ұ", "ұ", "Ҳ", "ҳ", "Ҵ",
            "ҵ", "Ҷ", "ҷ", "Ҹ", "ҹ", "Һ", "һ", "Ҽ", "ҽ", "Ҿ", "ҿ", "Ӏ", "Ӂ", "ӂ", "Ӄ", "ӄ",
            "Ӆ", "ӆ", "Ӈ", "ӈ", "Ӊ", "ӊ", "Ӌ", "ӌ", "Ӎ", "ӎ", "ӏ", "Ӑ", "ӑ", "Ӓ", "ӓ", "Ӕ",
            "ӕ", "Ӗ", "ӗ", "Ә", "ә", "Ӛ", "ӛ", "Ӝ", "ӝ", "Ӟ", "ӟ", "Ӡ", "ӡ", "Ӣ", "ӣ", "Ӥ",
            "ӥ", "Ӧ", "ӧ", "Ө", "ө", "Ӫ", "ӫ", "Ӭ", "ӭ", "Ӯ", "ӯ", "Ӱ", "ӱ", "Ӳ", "ӳ", "Ӵ",
            "ӵ", "Ӷ", "ӷ", "Ӹ", "ӹ", "Ӻ", "ӻ", "Ӽ", "ӽ", "Ӿ", "ӿ", "ր", "ց", "ւ", "փ", "ք",
            "օ", "ֆ", "և", "ֈ", "Ⴀ", "Ⴁ", "Ⴂ", "Ⴃ", "Ⴄ", "Ⴅ", "Ⴆ", "Ⴇ", "Ⴈ", "Ⴉ", "Ⴊ", "Ⴋ",
            "Ⴌ", "Ⴍ", "Ⴎ", "Ⴏ", "Ⴐ", "Ⴑ", "Ⴒ", "Ⴓ", "Ⴔ", "Ⴕ", "Ⴖ", "Ⴗ", "Ⴘ", "Ⴙ", "Ⴚ", "Ⴛ",
            "Ⴜ", "Ⴝ", "Ⴞ", "Ⴟ", "Ⴠ", "Ⴡ", "Ⴢ", "Ⴣ", "Ⴤ", "Ⴥ", "Ⴧ", "Ⴭ", "ა", "ბ", "გ", "დ",
            "ე", "ვ", "ზ", "თ", "ი", "კ", "ლ", "მ", "ნ", "ო", "პ", "ჟ", "რ", "ს", "ტ", "უ",
            "ფ", "ქ", "ღ", "ყ", "შ", "ჩ", "ც", "ძ", "წ", "ჭ", "ხ", "ჯ", "ჰ", "ჱ", "ჲ", "ჳ",
            "ჴ", "ჵ", "ჶ", "ჷ", "ჸ", "ჹ", "ჺ", "ჽ", "ჾ", "ჿ", "Ꭰ", "Ꭱ", "Ꭲ", "Ꭳ", "Ꭴ", "Ꭵ",
            "Ꭶ", "Ꭷ", "Ꭸ", "Ꭹ", "Ꭺ", "Ꭻ", "Ꭼ", "Ꭽ", "Ꭾ", "Ꭿ", "Ꮀ", "Ꮁ", "Ꮂ", "Ꮃ", "Ꮄ", "Ꮅ",
            "Ꮆ", "Ꮇ", "Ꮈ", "Ꮉ", "Ꮊ", "Ꮋ", "Ꮌ", "Ꮍ", "Ꮎ", "Ꮏ", "Ꮐ", "Ꮑ", "Ꮒ", "Ꮓ", "Ꮔ", "Ꮕ",
            "Ꮖ", "Ꮗ", "Ꮘ", "Ꮙ", "Ꮚ", "Ꮛ", "Ꮜ", "Ꮝ", "Ꮞ", "Ꮟ", "Ꮠ", "Ꮡ", "Ꮢ", "Ꮣ", "Ꮤ", "Ꮥ",
            "Ꮦ", "Ꮧ", "Ꮨ", "Ꮩ", "Ꮪ", "Ꮫ", "Ꮬ", "Ꮭ", "Ꮮ", "Ꮯ", "Ꮰ", "Ꮱ", "Ꮲ", "Ꮳ", "Ꮴ", "Ꮵ",
            "Ꮶ", "Ꮷ", "Ꮸ", "Ꮹ", "Ꮺ", "Ꮻ", "Ꮼ", "Ꮽ", "Ꮾ", "Ꮿ", "Ᏸ", "Ᏹ", "Ᏺ", "Ᏻ", "Ᏼ", "Ᏽ",
            "ᏸ", "ᏹ", "ᏺ", "ᏻ", "ᏼ", "ᏽ", "ᲀ", "ᲁ", "ᲂ", "ᲃ", "ᲄ", "ᲅ", "ᲆ", "ᲇ", "ᲈ", "Ᲊ",
            "ᲊ", "Ა", "Ბ", "Გ", "Დ", "Ე", "Ვ", "Ზ", "Თ", "Ი", "Კ", "Ლ", "Მ", "Ნ", "Ო", "Პ",
            "Ჟ", "Რ", "Ს", "Ტ", "Უ", "Ფ", "Ქ", "Ღ", "Ყ", "Შ", "Ჩ", "Ც", "Ძ", "Წ", "Ჭ", "Ხ",
            "Ჯ", "Ჰ", "Ჱ", "Ჲ", "Ჳ", "Ჴ", "Ჵ", "Ჶ", "Ჷ", "Ჸ", "Ჹ", "Ჺ", "Ჽ", "Ჾ", "Ჿ", "ᶀ",
            "ᶁ", "ᶂ", "ᶃ", "ᶄ", "ᶅ", "ᶆ", "ᶇ", "ᶈ", "ᶉ", "ᶊ", "ᶋ", "ᶌ", "ᶍ", "ᶎ", "ᶏ", "ᶐ",
            "ᶑ", "ᶒ", "ᶓ", "ᶔ", "ᶕ", "ᶖ", "ᶗ", "ᶘ", "ᶙ", "ᶚ", "Ẁ", "ẁ", "Ẃ", "ẃ", "Ẅ", "ẅ",
            "Ẇ", "ẇ", "Ẉ", "ẉ", "Ẋ", "ẋ", "Ẍ", "ẍ", "Ẏ", "ẏ", "Ẑ", "ẑ", "Ẓ", "ẓ", "Ẕ", "ẕ",
            "ẖ", "ẗ", "ẘ", "ẙ", "ẚ", "ẛ", "ẜ", "ẝ", "ẞ", "ẟ", "Ạ", "ạ", "Ả", "ả", "Ấ", "ấ",
            "Ầ", "ầ", "Ẩ", "ẩ", "Ẫ", "ẫ", "Ậ", "ậ", "Ắ", "ắ", "Ằ", "ằ", "Ẳ", "ẳ", "Ẵ", "ẵ",
            "Ặ", "ặ", "Ẹ", "ẹ", "Ẻ", "ẻ", "Ẽ", "ẽ", "Ế", "ế", "Ề", "ề", "Ể", "ể", "Ễ", "ễ",
            "Ệ", "ệ", "Ỉ", "ỉ", "Ị", "ị", "Ọ", "ọ", "Ỏ", "ỏ", "Ố", "ố", "Ồ", "ồ", "Ổ", "ổ",
            "Ỗ", "ỗ", "Ộ", "ộ", "Ớ", "ớ", "Ờ", "ờ", "Ở", "ở", "Ỡ", "ỡ", "Ợ", "ợ", "Ụ", "ụ",
            "Ủ", "ủ", "Ứ", "ứ", "Ừ", "ừ", "Ử", "ử", "Ữ", "ữ", "Ự", "ự", "Ỳ", "ỳ", "Ỵ", "ỵ",
            "Ỷ", "ỷ", "Ỹ", "ỹ", "Ỻ", "ỻ", "Ỽ", "ỽ", "Ỿ", "ỿ", "ᾀ", "ᾁ", "ᾂ", "ᾃ", "ᾄ", "ᾅ",
            "ᾆ", "ᾇ", "ᾈ", "ᾉ", "ᾊ", "ᾋ", "ᾌ", "ᾍ", "ᾎ", "ᾏ", "ᾐ", "ᾑ", "ᾒ", "ᾓ", "ᾔ", "ᾕ",
            "ᾖ", "ᾗ", "ᾘ", "ᾙ", "ᾚ", "ᾛ", "ᾜ", "ᾝ", "ᾞ", "ᾟ", "ᾠ", "ᾡ", "ᾢ", "ᾣ", "ᾤ", "ᾥ",
            "ᾦ", "ᾧ", "ᾨ", "ᾩ", "ᾪ", "ᾫ", "ᾬ", "ᾭ", "ᾮ", "ᾯ", "ᾰ", "ᾱ", "ᾲ", "ᾳ", "ᾴ", "ᾶ",
            "ᾷ", "Ᾰ", "Ᾱ", "Ὰ", "Ά", "ᾼ", "ι", "ῂ", "ῃ", "ῄ", "ῆ", "ῇ", "Ὲ", "Έ", "Ὴ", "Ή",
            "ῌ", "ῐ", "ῑ", "ῒ", "ΐ", "ῖ", "ῗ", "Ῐ", "Ῑ", "Ὶ", "Ί", "ῠ", "ῡ", "ῢ", "ΰ", "ῤ",
            "ῥ", "ῦ", "ῧ", "Ῠ", "Ῡ", "Ὺ", "Ύ", "Ῥ", "ῲ", "ῳ", "ῴ", "ῶ", "ῷ", "Ὸ", "Ό", "Ὼ",
            "Ώ", "ῼ", "Ↄ", "ↄ", "Ⓐ", "Ⓑ", "Ⓒ", "Ⓓ", "Ⓔ", "Ⓕ", "Ⓖ", "Ⓗ", "Ⓘ", "Ⓙ", "Ⓚ", "Ⓛ",
            "Ⓜ", "Ⓝ", "Ⓞ", "Ⓟ", "Ⓠ", "Ⓡ", "Ⓢ", "Ⓣ", "Ⓤ", "Ⓥ", "Ⓦ", "Ⓧ", "Ⓨ", "Ⓩ", "ⓐ", "ⓑ",
            "ⓒ", "ⓓ", "ⓔ", "ⓕ", "ⓖ", "ⓗ", "ⓘ", "ⓙ", "ⓚ", "ⓛ", "ⓜ", "ⓝ", "ⓞ", "ⓟ", "ⓠ", "ⓡ",
            "ⓢ", "ⓣ", "ⓤ", "ⓥ", "ⓦ", "ⓧ", "ⓨ", "ⓩ", "Ⲁ", "ⲁ", "Ⲃ", "ⲃ", "Ⲅ", "ⲅ", "Ⲇ", "ⲇ",
            "Ⲉ", "ⲉ", "Ⲋ", "ⲋ", "Ⲍ", "ⲍ", "Ⲏ", "ⲏ", "Ⲑ", "ⲑ", "Ⲓ", "ⲓ", "Ⲕ", "ⲕ", "Ⲗ", "ⲗ",
            "Ⲙ", "ⲙ", "Ⲛ", "ⲛ", "Ⲝ", "ⲝ", "Ⲟ", "ⲟ", "Ⲡ", "ⲡ", "Ⲣ", "ⲣ", "Ⲥ", "ⲥ", "Ⲧ", "ⲧ",
            "Ⲩ", "ⲩ", "Ⲫ", "ⲫ", "Ⲭ", "ⲭ", "Ⲯ", "ⲯ", "Ⲱ", "ⲱ", "Ⲳ", "ⲳ", "Ⲵ", "ⲵ", "Ⲷ", "ⲷ",
            "Ⲹ", "ⲹ", "Ⲻ", "ⲻ", "Ⲽ", "ⲽ", "Ⲿ", "ⲿ", "Ⳁ", "ⳁ", "Ⳃ", "ⳃ", "Ⳅ", "ⳅ", "Ⳇ", "ⳇ",
            "Ⳉ", "ⳉ", "Ⳋ", "ⳋ", "Ⳍ", "ⳍ", "Ⳏ", "ⳏ", "Ⳑ", "ⳑ", "Ⳓ", "ⳓ", "Ⳕ", "ⳕ", "Ⳗ", "ⳗ",
            "Ⳙ", "ⳙ", "Ⳛ", "ⳛ", "Ⳝ", "ⳝ", "Ⳟ", "ⳟ", "Ⳡ", "ⳡ", "Ⳣ", "ⳣ", "ⳤ", "Ⳬ", "ⳬ", "Ⳮ",
            "ⳮ", "Ⳳ", "ⳳ", "Ꚁ", "ꚁ", "Ꚃ", "ꚃ", "Ꚅ", "ꚅ", "Ꚇ", "ꚇ", "Ꚉ", "ꚉ", "Ꚋ", "ꚋ", "Ꚍ",
            "ꚍ", "Ꚏ", "ꚏ", "Ꚑ", "ꚑ", "Ꚓ", "ꚓ", "Ꚕ", "ꚕ", "Ꚗ", "ꚗ", "Ꚙ", "ꚙ", "Ꚛ", "ꚛ", "Ꞁ",
            "ꞁ", "Ꞃ", "ꞃ", "Ꞅ", "ꞅ", "Ꞇ", "ꞇ", "Ꞌ", "ꞌ", "Ɥ", "ꞎ", "Ꞑ", "ꞑ", "Ꞓ", "ꞓ", "ꞔ",
            "ꞕ", "Ꞗ", "ꞗ", "Ꞙ", "ꞙ", "Ꞛ", "ꞛ", "Ꞝ", "ꞝ", "Ꞟ", "ꞟ", "Ꞡ", "ꞡ", "Ꞣ", "ꞣ", "Ꞥ",
            "ꞥ", "Ꞧ", "ꞧ", "Ꞩ", "ꞩ", "Ɦ", "Ɜ", "Ɡ", "Ɬ", "Ɪ", "ꞯ", "Ʞ", "Ʇ", "Ʝ", "Ꭓ", "Ꞵ",
            "ꞵ", "Ꞷ", "ꞷ", "Ꞹ", "ꞹ", "Ꞻ", "ꞻ", "Ꞽ", "ꞽ", "Ꞿ", "ꞿ", "Ꟁ", "ꟁ", "Ꟃ", "ꟃ", "Ꞔ",
            "Ʂ", "Ᶎ", "Ꟈ", "ꟈ", "Ꟊ", "ꟊ", "Ɤ", "Ꟍ", "ꟍ", "꟎", "꟏", "Ꟑ", "ꟑ", "꟒", "ꟓ", "꟔",
            "ꟕ", "Ꟗ", "ꟗ", "Ꟙ", "ꟙ", "Ꟛ", "ꟛ", "Ƛ", "Ꟶ", "ꟶ", "ꟺ", "ꮀ", "ꮁ", "ꮂ", "ꮃ", "ꮄ",
            "ꮅ", "ꮆ", "ꮇ", "ꮈ", "ꮉ", "ꮊ", "ꮋ", "ꮌ", "ꮍ", "ꮎ", "ꮏ", "ꮐ", "ꮑ", "ꮒ", "ꮓ", "ꮔ",
            "ꮕ", "ꮖ", "ꮗ", "ꮘ", "ꮙ", "ꮚ", "ꮛ", "ꮜ", "ꮝ", "ꮞ", "ꮟ", "ꮠ", "ꮡ", "ꮢ", "ꮣ", "ꮤ",
            "ꮥ", "ꮦ", "ꮧ", "ꮨ", "ꮩ", "ꮪ", "ꮫ", "ꮬ", "ꮭ", "ꮮ", "ꮯ", "ꮰ", "ꮱ", "ꮲ", "ꮳ", "ꮴ",
            "ꮵ", "ꮶ", "ꮷ", "ꮸ", "ꮹ", "ꮺ", "ꮻ", "ꮼ", "ꮽ", "ꮾ", "ꮿ" },
         ignorable |->
            {
            "'", ".", ":", "^", "¨", "­", "¯", "´", "·", "¸", "ʰ", "ʱ", "ʲ", "ʳ", "ʴ", "ʵ",
            "ʶ", "ʷ", "ʸ", "ʹ", "ʺ", "ʻ", "ʼ", "ʽ", "ʾ", "ʿ", "ˀ", "ˁ", "˂", "˃", "˄", "˅",
            "ˆ", "ˇ", "ˈ", "ˉ", "ˊ", "ˋ", "ˌ", "ˍ", "ˎ", "ˏ", "ː", "ˑ", "˒", "˓", "˔", "˕",
            "˖", "˗", "˘", "˙", "˚", "˛", "˜", "˝", "˞", "˟", "ˠ", "ˡ", "ˢ", "ˣ", "ˤ", "˥",
            "˦", "˧", "˨", "˩", "˪", "˫", "ˬ", "˭", "ˮ", "˯", "˰", "˱", "˲", "˳", "˴", "˵",
            "˶", "˷", "˸", "˹", "˺", "˻", "˼", "˽", "˾", "˿", "΄", "΅", "·", "҃", "҄", "҅",
            "҆", "҇", "҈", "҉", "֑", "֒", "֓", "֔", "֕", "֖", "֗", "֘", "֙", "֚", "֛", "֜",
            "֝", "֞", "֟", "֠", "֡", "֢", "֣", "֤", "֥", "֦", "֧", "֨", "֩", "֪", "֫", "֬",
            "֭", "֮", "֯", "ְ", "ֱ", "ֲ", "ֳ", "ִ", "ֵ", "ֶ", "ַ", "ָ", "ֹ", "ֺ", "ֻ", "ּ",
            "ֽ", "ֿ", "ׁ", "ׂ", "ׄ", "ׅ", "ׇ", "״", "ۖ", "ۗ", "ۘ", "ۙ", "ۚ", "ۛ", "ۜ", "۝",
            "۟", "۠", "ۡ", "ۢ", "ۣ", "ۤ", "ۥ", "ۦ", "ۧ", "ۨ", "۪", "۫", "۬", "ۭ", "ަ", "ާ",
            "ި", "ީ", "ު", "ޫ", "ެ", "ޭ", "ޮ", "ޯ", "ް", "߫", "߬", "߭", "߮", "߯", "߰", "߱",
            "߲", "߳", "ߴ", "ߵ", "ߺ", "߽", "࢈", "࢐", "࢑", "ࢗ", "࢘", "࢙", "࢚", "࢛", "࢜", "࢝",
            "࢞", "࢟", "ࣉ", "࣊", "࣋", "࣌", "࣍", "࣎", "࣏", "࣐", "࣑", "࣒", "࣓", "ࣔ", "ࣕ", "ࣖ",
            "ࣗ", "ࣘ", "ࣙ", "ࣚ", "ࣛ", "ࣜ", "ࣝ", "ࣞ", "ࣟ", "࣠", "࣡", "࣢", "ࣣ", "ࣤ", "ࣥ", "ࣦ",
            "ࣧ", "ࣨ", "ࣩ", "࣪", "࣫", "࣬", "࣭", "࣮", "࣯", "ࣰ", "ࣱ", "ࣲ", "ࣳ", "ࣴ", "ࣵ", "ࣶ",
            "ࣷ", "ࣸ", "ࣹ", "ࣺ", "ࣻ", "ࣼ", "ࣽ", "ࣾ", "ࣿ", "ঁ", "়", "ু", "ূ", "ৃ", "ৄ", "্",
            "ৢ", "ৣ", "৾", "ઁ", "ં", "઼", "ુ", "ૂ", "ૃ", "ૄ", "ૅ", "ે", "ૈ", "્", "ૢ", "ૣ",
            "ૺ", "ૻ", "ૼ", "૽", "૾", "૿", "ஂ", "ீ", "்", "ಁ", "಼", "ಿ", "ೆ", "ೌ", "್", "ೢ",
            "ೣ", "ඁ", "්", "ි", "ී", "ු", "ූ", "ັ", "ິ", "ີ", "ຶ", "ື", "ຸ", "ູ", "຺", "ົ",
            "ຼ", "ໆ", "່", "້", "໊", "໋", "໌", "ໍ", "໎", "ྀ", "ཱྀ", "ྂ", "ྃ", "྄", "྆", "྇",
            "ྍ", "ྎ", "ྏ", "ྐ", "ྑ", "ྒ", "ྒྷ", "ྔ", "ྕ", "ྖ", "ྗ", "ྙ", "ྚ", "ྛ", "ྜ", "ྜྷ",
            "ྞ", "ྟ", "ྠ", "ྡ", "ྡྷ", "ྣ", "ྤ", "ྥ", "ྦ", "ྦྷ", "ྨ", "ྩ", "ྪ", "ྫ", "ྫྷ", "ྭ",
            "ྮ", "ྯ", "ྰ", "ྱ", "ྲ", "ླ", "ྴ", "ྵ", "ྶ", "ྷ", "ྸ", "ྐྵ", "ྺ", "ྻ", "ྼ", "࿆",
            "ႂ", "ႅ", "ႆ", "ႍ", "ႝ", "ჼ", "឴", "឵", "ិ", "ី", "ឹ", "ឺ", "ុ", "ូ", "ួ", "ំ",
            "៉", "៊", "់", "៌", "៍", "៎", "៏", "័", "៑", "្", "៓", "ៗ", "៝", "ᢅ", "ᢆ", "ᢩ",
            "ᪧ", "᪰", "᪱", "᪲", "᪳", "᪴", "᪵", "᪶", "᪷", "᪸", "᪹", "᪺", "᪻", "᪼", "᪽", "᪾",
            "ᪿ", "ᫀ", "᫁", "᫂", "᫃", "᫄", "᫅", "᫆", "᫇", "᫈", "᫉", "᫊", "᫋", "ᫌ", "ᫍ", "ᫎ",
            "᫏", "᫐", "᫑", "᫒", "᫓", "᫔", "᫕", "᫖", "᫗", "᫘", "᫙", "᫚", "᫛", "᫜", "᫝", "᫠",
            "᫡", "᫢", "᫣", "᫤", "᫥", "᫦", "᫧", "᫨", "᫩", "᫪", "᫫", "ᮀ", "ᮁ", "ᮢ", "ᮣ", "ᮤ",
            "ᮥ", "ᮨ", "ᮩ", "᮫", "ᮬ", "ᮭ", "᯦", "ᯨ", "ᯩ", "ᯭ", "ᯯ", "ᯰ", "ᯱ", "᳐", "᳑", "᳒",
            "᳔", "᳕", "᳖", "᳗", "᳘", "᳙", "᳚", "᳛", "᳜", "᳝", "᳞", "᳟", "᳠", "᳢", "᳣", "᳤",
            "᳥", "᳦", "᳧", "᳨", "᳭", "᳴", "᳸", "᳹", "ᶛ", "ᶜ", "ᶝ", "ᶞ", "ᶟ", "ᶠ", "ᶡ", "ᶢ",
            "ᶣ", "ᶤ", "ᶥ", "ᶦ", "ᶧ", "ᶨ", "ᶩ", "ᶪ", "ᶫ", "ᶬ", "ᶭ", "ᶮ", "ᶯ", "ᶰ", "ᶱ", "ᶲ",
            "ᶳ", "ᶴ", "ᶵ", "ᶶ", "ᶷ", "ᶸ", "ᶹ", "ᶺ", "ᶻ", "ᶼ", "ᶽ", "ᶾ", "ᶿ", "᷀", "᷁", "᷂",
            "᷃", "᷄", "᷅", "᷆", "᷇", "᷈", "᷉", "᷊", "᷋", "᷌", "᷍", "᷎", "᷏", "᷐", "᷑", "᷒",
            "ᷓ", "ᷔ", "ᷕ", "ᷖ", "ᷗ", "ᷘ", "ᷙ", "ᷚ", "ᷛ", "ᷜ", "ᷝ", "ᷞ", "ᷟ", "ᷠ", "ᷡ", "ᷢ",
            "ᷣ", "ᷤ", "ᷥ", "ᷦ", "ᷧ", "ᷨ", "ᷩ", "ᷪ", "ᷫ", "ᷬ", "ᷭ", "ᷮ", "ᷯ", "ᷰ", "ᷱ", "ᷲ",
            "ᷳ", "ᷴ", "᷵", "᷶", "᷷", "᷸", "᷹", "᷺", "᷻", "᷼", "᷽", "᷾", "᷿", "᾽", "᾿", "῀",
            "῁", "῍", "῎", "῏", "῝", "῞", "῟", "῭", "΅", "`", "´", "῾", "ₐ", "ₑ", "ₒ", "ₓ",
            "ₔ", "ₕ", "ₖ", "ₗ", "ₘ", "ₙ", "ₚ", "ₛ", "ₜ", "⃐", "⃑", "⃒", "⃓", "⃔", "⃕", "⃖",
            "⃗", "⃘", "⃙", "⃚", "⃛", "⃜", "⃝", "⃞", "⃟", "⃠", "⃡", "⃢", "⃣", "⃤", "⃥", "⃦",
            "⃧", "⃨", "⃩", "⃪", "⃫", "⃬", "⃭", "⃮", "⃯", "⃰", "⳯", "⳰", "⳱", "ⷠ", "ⷡ", "ⷢ",
            "ⷣ", "ⷤ", "ⷥ", "ⷦ", "ⷧ", "ⷨ", "ⷩ", "ⷪ", "ⷫ", "ⷬ", "ⷭ", "ⷮ", "ⷯ", "ⷰ", "ⷱ", "ⷲ",
            "ⷳ", "ⷴ", "ⷵ", "ⷶ", "ⷷ", "ⷸ", "ⷹ", "ⷺ", "ⷻ", "ⷼ", "ⷽ", "ⷾ", "ⷿ", "゙", "゚", "゛",
            "゜", "ゝ", "ゞ", "ー", "ヽ", "ヾ", "ꓸ", "ꓹ", "ꓺ", "ꓻ", "ꓼ", "ꓽ", "ꚜ", "ꚝ", "ꚞ", "ꚟ",
            "꛰", "꛱", "ꞈ", "꞉", "꞊", "꟱", "ꟲ", "ꟳ", "ꟴ", "ꟸ", "ꟹ", "꣄", "ꣅ", "꣠", "꣡", "꣢",
            "꣣", "꣤", "꣥", "꣦", "꣧", "꣨", "꣩", "꣪", "꣫", "꣬", "꣭", "꣮", "꣯", "꣰", "꣱", "ꣿ",
            "ꦀ", "ꦁ", "ꦂ", "꦳", "ꦶ", "ꦷ", "ꦸ", "ꦹ", "ꦼ", "ꦽ", "ꧏ", "ꧥ", "ꧦ", "ꪰ", "ꪲ", "ꪳ",
            "ꪴ", "ꪷ", "ꪸ", "ꪾ", "꪿", "꫁", "ꫝ", "ꫬ", "ꫭ", "ꫳ", "ꫴ", "꫶", "ꯥ", "ꯨ", "꯭", "﮲",
            "﮳", "﮴", "﮵", "﮶", "﮷", "﮸", "﮹", "﮺", "﮻", "﮼", "﮽", "﮾", "﮿", "﯀", "﯁", "﯂",
            "﻿", "ﾞ", "ﾟ", "￣", "￹", "￺", "￻" }]

\* String.prototype.toLowerCase(): every capital of the string is replaced by
\* its small letter, a capital sigma by the final small sigma when it ends a
\* word (a cased letter before it, none after it, case-ignorable characters
\* skipped), every other character is kept
ToLowerCase(s) ==
    LET char(i) == SubSeq(s, i, i)
        RECURSIVE casedBefore(_)
        casedBefore(i) ==
            IF i < 1 THEN FALSE
            ELSE IF char(i) \in UnicodeCase.ignorable THEN casedBefore(i - 1)
            ELSE char(i) \in UnicodeCase.cased
        RECURSIVE casedAfter(_)
        casedAfter(i) ==
            IF i > Len(s) THEN FALSE
            ELSE IF char(i) \in UnicodeCase.ignorable THEN casedAfter(i + 1)
            ELSE char(i) \in UnicodeCase.cased
        lower(i) ==
            IF char(i) \in UnicodeCase.capitals THEN UnicodeCase.lower[char(i)]
            ELSE IF char(i) = "Σ"
            THEN (IF casedBefore(i - 1) /\ ~casedAfter(i + 1) THEN "ς" ELSE "σ")
            ELSE IF char(i) \in UnicodeCase.unwritable
            THEN CHOOSE small \in {} : TRUE
            ELSE char(i)
        RECURSIVE from(_)
        from(i) == IF i > Len(s) THEN "" ELSE lower(i) \o from(i + 1)
    IN  from(1)


-----------------------------------------------------------------------------
(* Configuration (the module-level constant `config`) *)

\* config.webhooks.projectCreationStages
ProjectCreationStages == {"closedwon"}

\* config.fieldMapping.syncableFields as shipped: 'amount' excluded
SyncableFieldsShipped == {"dealname", "closedate", "description"}

\* config.fieldMapping.syncableFields of the earlier configuration, which
\* is also the one the test-suite loads: 'amount' included
SyncableFieldsWithAmount == {"dealname", "amount", "closedate", "description"}

SyncableContactFieldsShipped == {"firstname", "lastname", "email", "phone", "jobtitle"}

SyncableContactFieldsWithCompany ==
    {"firstname", "lastname", "email", "phone", "jobtitle", "company"}

\* config.fieldMapping.syncableCompanyFields, which buildCompanyUpdates
\* reads, in a configuration that has it (no configuration of the sources
\* has): every field the company diff knows is syncable
SyncableCompanyFields == {"name", "domain", "industry", "numberofemployees", "country"}

ProjectStatusMappingShipped ==
    [s \in {"closedwon", "contractsent", "decisionmakerboughtin",
            "presentationscheduled", "qualifiedtobuy", "appointmentscheduled",
            "closedlost"} |->
        CASE s = "closedwon" -> "In Progress"
          [] s \in {"contractsent", "decisionmakerboughtin", "presentationscheduled"} -> "Planned"
          [] s \in {"qualifiedtobuy", "appointmentscheduled"} -> "Not Started"
          [] OTHER -> "Cancelled"]

ProjectStatusMappingLegacy ==
    [s \in {"closedwon", "contractsent", "decisionmakerboughtin",
            "presentationscheduled", "qualifiedtobuy", "appointmentscheduled",
            "closedlost"} |->
        CASE s = "closedwon" -> "Active"
          [] s = "contractsent" -> "Pending Approval"
          [] s = "decisionmakerboughtin" -> "Negotiation"
          [] s = "presentationscheduled" -> "Proposal"
          [] s = "qualifiedtobuy" -> "Discovery"
          [] s = "appointmentscheduled" -> "New"
          [] OTHER -> "Cancelled"]

ConfigShipped ==
    [projectCreationStages |-> ProjectCreationStages,
     syncableFields |-> SyncableFieldsShipped,
     syncableContactFields |-> SyncableContactFieldsShipped,
     projectStatusMapping |-> ProjectStatusMappingShipped]

ConfigLegacy ==
    [projectCreationStages |-> ProjectCreationStages,
     syncableFields |-> SyncableFieldsWithAmount,
     syncableContactFields |-> SyncableContactFieldsWithCompany,
     projectStatusMapping |-> ProjectStatusMappingLegacy]

\* process.env.HUBSPOT_CLIENT_SECRET || ''
Secrets == {"", "s3cret"}

\* The configurations a deployment is started with: the shipped one, the
\* shipped one with updates disabled and no webhook secret, the one that
\* syncs the amount, without a webhook secret, and the shipped one with
\* the list of syncable company fields added to its field mapping
Configs ==
    { [hubspotSecret |-> c[1], enableUpdates |-> c[2]] @@ c[3] :
        c \in { <<"s3cret", TRUE, ConfigShipped>>, <<"", FALSE, ConfigShipped>>,
                <<"", TRUE, ConfigLegacy>>,
                <<"s3cret", TRUE,
                  [syncableCompanyFields |-> SyncableCompanyFields] @@ ConfigShipped>> } }

-----------------------------------------------------------------------------
(* Source data: what the HubSpot gateway can answer *)

DealObjectIds == {1, 2}

StageIds == {"closedwon", "ClosedWon", "qualifiedtobuy", "customstage"}
CloseDates == { <<"2024-12-15", "T", "00:00:00.000Z">> }

\* name, amount and description of a deal, before and after an edit
DealContents ==
    { [name |-> <<" ", "A">>, amount |-> 50000, description |-> "Annual license"],
      [name |-> <<"B">>, amount |-> 0, description |-> ""] }

\* new Date().toISOString().split('T')[0] at the time of the sync
Today == "2024-12-16"

CompanyInputs ==
    { [id |-> "comp1", name |-> n, domain |-> Undefined, industry |-> Undefined,
       numberOfEmployees |-> Undefined, country |-> Undefined] :
        n \in {"Acme Corp", "Acme Inc"} }

\* contacts as getContactDetails returns them
ContactInputs ==
    { [id |-> "c1", firstName |-> "John", lastName |-> "Doe", email |-> e,
       phone |-> Undefined, jobTitle |-> "CEO", companyName |-> Undefined] :
        e \in {"john@example.com", "j.doe@example.com"} }

\* contacts as getDealWithAssociations embeds them (no companyName)
AssociatedContacts == { [c EXCEPT !.companyName = Undefined] : c \in ContactInputs }

\* What a property read on an object literal finds under a lower-case key
\* the literal does not have: the members it inherits from Object.prototype
\* (a function and an object, both truthy; shown as they print)
ObjectPrototype ==
    [k \in {"constructor", "__proto__"} |->
        IF k = "constructor" THEN "function Object() { [native code] }"
        ELSE "[object Object]"]

\* Maps HubSpot internal stage IDs to human-readable stage names.
mapHubSpotStageToReadable(hubspotStage) ==
    LET stageMapping ==
            [s \in {"appointmentscheduled", "qualifiedtobuy", "presentationscheduled",
                    "decisionmakerboughtin", "contractsent", "closedwon", "closedlost"} |->
                CASE s = "appointmentscheduled" -> "New"
                  [] s = "qualifiedtobuy" -> "Discovery"
                  [] s = "presentationscheduled" -> "Proposal"
                  [] s \in {"decisionmakerboughtin", "contractsent"} -> "Negotiation"
                  [] s = "closedwon" -> "Closed Won"
                  [] OTHER -> "Closed Lost"]
        k == ToLowerCase(hubspotStage)
    IN  IF k \in DOMAIN stageMapping THEN stageMapping[k]
        ELSE IF k \in DOMAIN ObjectPrototype THEN ObjectPrototype[k]
        ELSE hubspotStage

TheCompany == CHOOSE c \in CompanyInputs : c.name = "Acme Corp"
RenamedCompany == CHOOSE c \in CompanyInputs : c.name = "Acme Inc"
TheContact == CHOOSE c \in AssociatedContacts : c.email = "john@example.com"
EditedContact == CHOOSE c \in AssociatedContacts : c.email = "j.doe@example.com"
ContentA == CHOOSE c \in DealContents : c.amount = 50000
ContentB == CHOOSE c \in DealContents : c.amount = 0

\* the object getDealById builds, with the associations resolved
Deal(dealId, stageId, content, contacts, company) ==
    [id |-> dealId, name |-> content.name, amount |-> content.amount,
     stage |-> mapHubSpotStageToReadable(stageId), stageId |-> stageId,
     closeDate |-> CHOOSE cd \in CloseDates : TRUE,
     description |-> content.description, contacts |-> contacts, company |-> company]

\* The requests getDealWithAssociations makes to HubSpot: the deal, its
\* contact associations, each associated contact, its company associations
\* and the first associated company
GatewayCalls ==
    {"deals.getById", "associations.contacts", "contacts.getById.1",
     "contacts.getById.2", "associations.companies", "companies.getById"}

RECURSIVE KeepAt(_, _, _)
\* the elements of seq from position i on whose position is in keep
KeepAt(seq, i, keep) ==
    IF i > Len(seq) THEN <<>>
    ELSE (IF i \in keep THEN <<seq[i]>> ELSE <<>>) \o KeepAt(seq, i + 1, keep)

\* one try/catch around the whole function: any failed request gives null
getDealWithAssociationsAllOrNothing(source, failing) ==
    IF failing # {} THEN Null ELSE Some(source)

\* getDealWithAssociations(dealId) when HubSpot holds the deal `source`,
\* with its contacts and company, and the requests in `failing` fail
getDealWithAssociations(source, failing) ==
    IF "deals.getById" \in failing THEN Null
    ELSE LET to == SubSeq(source.contacts, 1,
                          IF Len(source.contacts) > 5 THEN 5 ELSE Len(source.contacts))
             contacts ==
                IF "associations.contacts" \in failing THEN <<>>
                ELSE KeepAt(to, 1, { i \in 1..Len(to) :
                                      ("contacts.getById." \o ToString(i)) \notin failing })
             company ==
                IF "associations.companies" \in failing \/ "companies.getById" \in failing
                THEN Null ELSE source.company
         IN  Some([source EXCEPT !.contacts = contacts, !.company = company])

\* What HubSpot can answer to the requests of a fetch and to
\* getContactDetails: the deal in any of the stages, with the one or the
\* other content; no associated contact or the contact c1; no associated
\* company or the company comp1; the record of the contact and of the
\* company, as first entered or edited.  The deals tried differ in their
\* ids only.  When requests are served concurrently the deal is in the
\* creation stage and has its contact and its company.
HubSpotAnswers(concurrent) ==
    [deal |-> [stageId : IF concurrent THEN {"closedwon"} ELSE StageIds,
               content : DealContents],
     contacts |-> IF concurrent THEN { <<"c1">> } ELSE { <<>>, <<"c1">> },
     companies |-> IF concurrent THEN { <<"comp1">> } ELSE { <<>>, <<"comp1">> },
     contact |-> ContactInputs,
     company |-> CompanyInputs]

\* What HubSpot holds when the first request arrives: the deal in any
\* stage, with or without its contact and its company, no amount or
\* description entered yet, and the records of the contact and of the
\* company as first entered
InitialHubSpot(concurrent) ==
    LET answers == HubSpotAnswers(concurrent)
    IN  { h \in [deal : answers.deal, contacts : answers.contacts,
                 companies : answers.companies, contact : answers.contact,
                 company : answers.company, edits : {0}] :
            /\ h.deal.content = ContentB
            /\ h.contact.email = "john@example.com"
            /\ h.company = TheCompany }

\* The deals HubSpot can hold under a deal id, with the contacts and the
\* company its associations resolve to
Sources(dealId) ==
    { Deal(dealId, stageId, content, contacts, company) :
        stageId \in StageIds, content \in DealContents,
        contacts \in { <<>> } \cup { <<c>> : c \in AssociatedContacts },
        company \in {Null} \cup { Some(c) : c \in CompanyInputs } }

\* Error messages of the Airtable client
AirtableErrors == {"Airtable field validation failed"}

-----------------------------------------------------------------------------
(* JavaScript helpers for the builders *)

\* truthiness of a string-valued expression
Truthy(v) == v # "" /\ v # Undefined

\* a || b on strings
OrElse(v, d) == IF Truthy(v) THEN v ELSE d

\* the object built by a run of `if (cond) obj.key = value` statements:
\* candidates are <<key, value, cond>> in program order
Assigned(candidates) ==
    LET kept == SelectSeq(candidates, LAMBDA c : c[3])
    IN  [i \in 1..Len(kept) |-> <<kept[i][1], kept[i][2]>>]

-----------------------------------------------------------------------------
(* sync_service.ts: pure builders *)

buildClientFromContact(contact) ==
    [hubspotContactId |-> contact.id, firstName |-> contact.firstName,
     lastName |-> contact.lastName, email |-> contact.email,
     phone |-> contact.phone, jobTitle |-> contact.jobTitle,
     companyName |-> contact.companyName]

buildClientUpdates(contact, existingClient) ==
    LET syncableFields == cfg.syncableContactFields
    IN  Assigned(<<
          <<"firstName", contact.firstName,
            "firstname" \in syncableFields /\ contact.firstName # existingClient.firstName>>,
          <<"lastName", contact.lastName,
            "lastname" \in syncableFields /\ contact.lastName # existingClient.lastName>>,
          <<"email", contact.email,
            "email" \in syncableFields /\ contact.email # existingClient.email>>,
          <<"phone", contact.phone,
            "phone" \in syncableFields /\ contact.phone # existingClient.phone>>,
          <<"jobTitle", contact.jobTitle,
            "jobtitle" \in syncableFields /\ contact.jobTitle # existingClient.jobTitle>>,
          <<"companyName", contact.companyName,
            "company" \in syncableFields /\ contact.companyName # existingClient.companyName>> >>)

buildCompanyFromHubSpot(company) ==
    [hubspotCompanyId |-> company.id, name |-> company.name,
     website |-> company.domain, industry |-> company.industry,
     companySize |-> company.numberOfEmployees, country |-> company.country]

\* buildCompanyUpdates: the update object it returns (`value`), or the
\* message of the TypeError it throws (`thrown`) at the first
\* syncableFields.includes(...) when config.fieldMapping has no
\* syncableCompanyFields
buildCompanyUpdates(company, existingCompany) ==
    IF "syncableCompanyFields" \notin DOMAIN cfg
    THEN [thrown |-> "Cannot read properties of undefined (reading 'includes')",
          value |-> <<>>]
    ELSE
    LET syncableFields == cfg.syncableCompanyFields
    IN  [thrown |-> Undefined,
         value |-> Assigned(<<
          <<"name", company.name,
            "name" \in syncableFields /\ company.name # existingCompany.name>>,
          <<"website", company.domain,
            "domain" \in syncableFields /\ company.domain # existingCompany.website>>,
          <<"industry", company.industry,
            "industry" \in syncableFields /\ company.industry # existingCompany.industry>>,
          <<"companySize", company.numberOfEmployees,
            "numberofemployees" \in syncableFields
              /\ company.numberOfEmployees # existingCompany.companySize>>,
          <<"country", company.country,
            "country" \in syncableFields /\ company.country # existingCompany.country>> >>)]

\* config.projectStatusMapping[stageId]: the mapped status, else the member the
\* object literal inherits under that key, else Undefined
StatusOfStage(stageId) ==
    IF stageId \in DOMAIN cfg.projectStatusMapping THEN cfg.projectStatusMapping[stageId]
    ELSE IF stageId \in DOMAIN ObjectPrototype THEN ObjectPrototype[stageId]
    ELSE Undefined

buildProjectDescription(deal) ==
    LET companyPart ==
            IF ~IsNull(deal.company)
            THEN << "Company: " \o The(deal.company).name >> ELSE <<>>
        contactPart ==
            IF Len(deal.contacts) > 0
            THEN << "Primary Contact: " \o deal.contacts[1].firstName \o " "
                    \o deal.contacts[1].lastName \o " (" \o deal.contacts[1].email \o ")" >>
            ELSE <<>>
    IN  JoinWith(companyPart \o contactPart \o << "Synced from HubSpot on " \o Today >>, "\n")

\* a builder that takes the close date as it comes, time of day included
buildProjectFromDealFullTimestamp(deal, clientId, companyId) ==
    LET stageId == ToLowerCase(deal.stageId)
        status == OrElse(StatusOfStage(stageId), "Active")
    IN  [name |-> Trim(deal.name),
         hubspotDealId |-> deal.id,
         budget |-> deal.amount,
         status |-> status,
         startDate |-> IF deal.closeDate # <<>> THEN JoinWith(deal.closeDate, "") ELSE Undefined,
         description |-> OrElse(deal.description, buildProjectDescription(deal)),
         clientId |-> clientId,
         companyId |-> companyId]

buildProjectFromDeal(deal, clientId, companyId) ==
    LET stageId == ToLowerCase(deal.stageId)
        status == OrElse(StatusOfStage(stageId), "Active")
    IN  [name |-> Trim(deal.name),
         hubspotDealId |-> deal.id,
         budget |-> deal.amount,
         status |-> status,
         startDate |-> IF deal.closeDate # <<>> THEN BeforeT(deal.closeDate) ELSE Undefined,
         description |-> OrElse(deal.description, buildProjectDescription(deal)),
         clientId |-> clientId,
         companyId |-> companyId]

\* a builder that sends every syncable field, changed or not
buildProjectUpdatesUnconditional(deal, existingProject) ==
    LET syncableFields == cfg.syncableFields
        newStatus == StatusOfStage(ToLowerCase(deal.stageId))
    IN  Assigned(<<
          <<"name", Trim(deal.name), "dealname" \in syncableFields>>,
          <<"budget", deal.amount, "amount" \in syncableFields>>,
          <<"startDate", BeforeT(deal.closeDate),
            "closedate" \in syncableFields /\ deal.closeDate # <<>> >>,
          <<"description", deal.description,
            "description" \in syncableFields /\ Truthy(deal.description)>>,
          <<"status", newStatus,
            Truthy(newStatus) /\ newStatus # existingProject.status>> >>)

\* a builder that treats the status as one more syncable field, listed
\* under 'dealstage'
buildProjectUpdatesSyncableOnly(deal, existingProject) ==
    LET syncableFields == cfg.syncableFields
        newStatus == StatusOfStage(ToLowerCase(deal.stageId))
    IN  Assigned(<<
          <<"name", Trim(deal.name),
            "dealname" \in syncableFields /\ Trim(deal.name) # existingProject.name>>,
          <<"budget", deal.amount,
            "amount" \in syncableFields /\ deal.amount # existingProject.budget>>,
          <<"startDate", BeforeT(deal.closeDate),
            "closedate" \in syncableFields /\ deal.closeDate # <<>>
              /\ BeforeT(deal.closeDate) # existingProject.startDate>>,
          <<"description", deal.description,
            "description" \in syncableFields /\ Truthy(deal.description)
              /\ deal.description # existingProject.description>>,
          <<"status", newStatus,
            "dealstage" \in syncableFields
              /\ Truthy(newStatus) /\ newStatus # existingProject.status>> >>)

buildProjectUpdates(deal, existingProject) ==
    LET syncableFields == cfg.syncableFields
        newName == Trim(deal.name)
        newStartDate == BeforeT(deal.closeDate)
        stageId == ToLowerCase(deal.stageId)
        newStatus == StatusOfStage(stageId)
    IN  Assigned(<<
          <<"name", newName,
            "dealname" \in syncableFields /\ newName # existingProject.name>>,
          <<"budget", deal.amount,
            "amount" \in syncableFields /\ deal.amount # existingProject.budget>>,
          <<"startDate", newStartDate,
            "closedate" \in syncableFields /\ deal.closeDate # <<>>
              /\ newStartDate # existingProject.startDate>>,
          <<"description", deal.description,
            "description" \in syncableFields /\ Truthy(deal.description)
              /\ deal.description # existingProject.description>>,
          <<"status", newStatus,
            Truthy(newStatus) /\ newStatus # existingProject.status>> >>)

-----------------------------------------------------------------------------
(* Airtable tables.  A row maps store-native field names to cell values;   *)
(* an empty text cell is Undefined, an empty link cell is <<>>.  Row ids   *)
(* are the positions in the table: rows are never deleted.                 *)

EmptyProjectRow ==
    ("id" :> NoId) @@ ("Project Name" :> <<>>) @@ ("HubSpot Deal ID" :> Undefined)
    @@ ("Status" :> Undefined) @@ ("Start Date" :> Undefined)
    @@ ("Description" :> Undefined) @@ ("Company" :> <<>>) @@ ("Contacts" :> <<>>)

EmptyClientRow ==
    ("id" :> NoId) @@ ("HubSpot Contact ID" :> Undefined) @@ ("First Name" :> Undefined)
    @@ ("Last Name" :> Undefined) @@ ("Email" :> Undefined) @@ ("Phone" :> Undefined)
    @@ ("Role / Title" :> Undefined) @@ ("Company" :> <<>>)

EmptyCompanyRow ==
    ("id" :> NoId) @@ ("HubSpot Company ID" :> Undefined) @@ ("Company Name" :> Undefined)
    @@ ("Website" :> Undefined) @@ ("Industry" :> Undefined)
    @@ ("Company Size" :> Undefined) @@ ("Country / Region" :> Undefined)
    @@ ("Status" :> Undefined)

RECURSIVE WriteFieldsAppendingLinks(_, _)
\* a write that adds the ids it is given to a link cell instead of
\* replacing the cell
WriteFieldsAppendingLinks(row, fields) ==
    IF fields = <<>> THEN row
    ELSE LET field == fields[1][1]
             value == IF field \in {"Contacts", "Company"}
                      THEN row[field] \o fields[1][2] ELSE fields[1][2]
         IN  WriteFieldsAppendingLinks([row EXCEPT ![field] = value], Tail(fields))

RECURSIVE WriteFields(_, _)
\* table.create(fields) / table.update(id, fields): only the listed cells change
WriteFields(row, fields) ==
    IF fields = <<>> THEN row
    ELSE WriteFields([row EXCEPT ![fields[1][1]] = fields[1][2]], Tail(fields))

\* table.create(fields)
CreateRow(table, emptyRow, fields) ==
    Append(table, WriteFields([emptyRow EXCEPT !["id"] = Len(table) + 1], fields))

\* table.update(recordId, fields)
UpdateRow(table, recordId, fields) ==
    [table EXCEPT ![recordId] = WriteFields(@, fields)]

\* table.select({ filterByFormula: `{field} = 'value'`, maxRecords: 1 }).firstPage()
SelectFirst(table, field, value) ==
    LET hits == SelectSeq(table, LAMBDA r : r[field] = value)
    IN  IF hits = <<>> THEN Null ELSE Some(hits[1])

\* (record.get('Company') as string[])?.join(',') || undefined
\* One linked id is that id; several ids joined by commas are no record's id:
\* they are written as the digits of one number in a base above every row id.
LinkedId(cell) ==
    LET RECURSIVE join(_)
        join(ids) ==
            IF ids = <<>> THEN NoId
            ELSE join(SubSeq(ids, 1, Len(ids) - 1)) * 1000 + ids[Len(ids)]
    IN  join(cell)

-----------------------------------------------------------------------------
(* airtable_service.ts: project operations *)

\* the Project object built from a row by findProjectByHubSpotDealId,
\* updateProject and linkProjectToClient
ProjectOfRow(record) ==
    [id |-> record["id"],
     name |-> record["Project Name"],
     hubspotDealId |-> OrElse(record["HubSpot Deal ID"], ""),
     budget |-> 0,
     status |-> OrElse(record["Status"], "Active"),
     startDate |-> OrElse(record["Start Date"], ""),
     description |-> OrElse(record["Description"], ""),
     companyId |-> LinkedId(record["Company"])]

\* result of findProjectByHubSpotDealId when the request succeeds
findProjectByHubSpotDealId(hubspotDealId) ==
    LET records == SelectFirst(projects, "HubSpot Deal ID", hubspotDealId)
    IN  IF IsNull(records) THEN Null ELSE Some(ProjectOfRow(The(records)))

\* the fields createProject sends
createProjectFields(project) ==
    Assigned(<<
      <<"Project Name", project.name, TRUE>>,
      <<"HubSpot Deal ID", project.hubspotDealId, TRUE>>,
      <<"Status", project.status, Truthy(project.status)>>,
      <<"Start Date", project.startDate, Truthy(project.startDate)>>,
      <<"Description", project.description, Truthy(project.description)>>,
      <<"Company", <<project.companyId>>, project.companyId # NoId>>,
      <<"Contacts", <<project.clientId>>, project.clientId # NoId>> >>)

\* the Project object createProject returns for the new row id
createProjectResult(project, id) ==
    [id |-> id,
     name |-> project.name,
     hubspotDealId |-> project.hubspotDealId,
     budget |-> project.budget,
     status |-> OrElse(project.status, "Active"),
     startDate |-> OrElse(project.startDate, ""),
     description |-> OrElse(project.description, ""),
     companyId |-> project.companyId]

\* the fields updateProject sends
\* an update that also sends the link fields of the partial update, empty
\* when the update carries no link
updateProjectFieldsWithLinks(updates) ==
    LET syncableFields == cfg.syncableFields
        prop(k, absent) == IF HasKey(updates, k) THEN Get(updates, k) ELSE absent
    IN  Assigned(<<
          <<"Project Name", prop("name", <<>>),
            prop("name", <<>>) # <<>> /\ "dealname" \in syncableFields>>,
          <<"Start Date", prop("startDate", Undefined),
            Truthy(prop("startDate", Undefined)) /\ "closedate" \in syncableFields>>,
          <<"Description", prop("description", Undefined),
            Truthy(prop("description", Undefined)) /\ "description" \in syncableFields>>,
          <<"Status", prop("status", Undefined),
            Truthy(prop("status", Undefined))>>,
          <<"Contacts", prop("clientId", <<>>), TRUE>>,
          <<"Company", prop("companyId", <<>>), TRUE>> >>)

\* an update that also sends the external id, as the partial update has it
updateProjectFieldsWithDealId(updates) ==
    LET syncableFields == cfg.syncableFields
        prop(k, absent) == IF HasKey(updates, k) THEN Get(updates, k) ELSE absent
    IN  Assigned(<<
          <<"Project Name", prop("name", <<>>),
            prop("name", <<>>) # <<>> /\ "dealname" \in syncableFields>>,
          <<"HubSpot Deal ID", prop("hubspotDealId", Undefined), TRUE>>,
          <<"Start Date", prop("startDate", Undefined),
            Truthy(prop("startDate", Undefined)) /\ "closedate" \in syncableFields>>,
          <<"Description", prop("description", Undefined),
            Truthy(prop("description", Undefined)) /\ "description" \in syncableFields>>,
          <<"Status", prop("status", Undefined),
            Truthy(prop("status", Undefined))>> >>)

updateProjectFields(updates) ==
    LET syncableFields == cfg.syncableFields
        prop(k, absent) == IF HasKey(updates, k) THEN Get(updates, k) ELSE absent
    IN  Assigned(<<
          <<"Project Name", prop("name", <<>>),
            prop("name", <<>>) # <<>> /\ "dealname" \in syncableFields>>,
          <<"Start Date", prop("startDate", Undefined),
            Truthy(prop("startDate", Undefined)) /\ "closedate" \in syncableFields>>,
          <<"Description", prop("description", Undefined),
            Truthy(prop("description", Undefined)) /\ "description" \in syncableFields>>,
          <<"Status", prop("status", Undefined),
            Truthy(prop("status", Undefined))>> >>)

\* the fields linkProjectToClient sends
linkProjectToClientFields(clientId) == << <<"Contacts", <<clientId>>>> >>

\* the fields linkProjectToCompany sends
linkProjectToCompanyFields(companyId) == << <<"Company", <<companyId>>>> >>

-----------------------------------------------------------------------------
(* airtable_service.ts: client (contact) operations *)

ClientOfRow(record) ==
    [id |-> record["id"],
     hubspotContactId |-> OrElse(record["HubSpot Contact ID"], ""),
     firstName |-> OrElse(record["First Name"], ""),
     lastName |-> OrElse(record["Last Name"], ""),
     email |-> OrElse(record["Email"], ""),
     phone |-> OrElse(record["Phone"], Undefined),
     jobTitle |-> OrElse(record["Role / Title"], Undefined),
     companyName |-> Undefined]

\* result of findClientByHubSpotContactId when the request succeeds
findClientByHubSpotContactId(hubspotContactId) ==
    LET records == SelectFirst(clients, "HubSpot Contact ID", hubspotContactId)
    IN  IF IsNull(records) THEN Null ELSE Some(ClientOfRow(The(records)))

createClientFields(client) ==
    Assigned(<<
      <<"HubSpot Contact ID", client.hubspotContactId, TRUE>>,
      <<"First Name", client.firstName, TRUE>>,
      <<"Last Name", client.lastName, TRUE>>,
      <<"Email", client.email, TRUE>>,
      <<"Phone", client.phone, Truthy(client.phone)>>,
      <<"Role / Title", client.jobTitle, Truthy(client.jobTitle)>> >>)

\* an update that sends every mapped field, null for the omitted ones
updateClientFieldsClearingOmitted(updates) ==
    LET prop(k) == IF HasKey(updates, k) THEN Get(updates, k) ELSE Undefined
    IN  << <<"First Name", prop("firstName")>>, <<"Last Name", prop("lastName")>>,
           <<"Email", prop("email")>>, <<"Phone", prop("phone")>>,
           <<"Role / Title", prop("jobTitle")>> >>

updateClientFields(updates) ==
    LET syncableFields == cfg.syncableContactFields
        prop(k) == IF HasKey(updates, k) THEN Get(updates, k) ELSE Undefined
    IN  Assigned(<<
          <<"First Name", prop("firstName"),
            Truthy(prop("firstName")) /\ "firstname" \in syncableFields>>,
          <<"Last Name", prop("lastName"),
            Truthy(prop("lastName")) /\ "lastname" \in syncableFields>>,
          <<"Email", prop("email"),
            Truthy(prop("email")) /\ "email" \in syncableFields>>,
          <<"Phone", prop("phone"),
            Truthy(prop("phone")) /\ "phone" \in syncableFields>>,
          <<"Role / Title", prop("jobTitle"),
            Truthy(prop("jobTitle")) /\ "jobtitle" \in syncableFields>> >>)

\* the fields linkContactToCompany sends
linkContactToCompanyFields(companyId) == << <<"Company", <<companyId>>>> >>

-----------------------------------------------------------------------------
(* Target Record Store: company operations *)

CompanyOfRow(record) ==
    [id |-> record["id"],
     hubspotCompanyId |-> record["HubSpot Company ID"],
     name |-> record["Company Name"],
     website |-> record["Website"],
     industry |-> record["Industry"],
     companySize |-> record["Company Size"],
     country |-> record["Country / Region"]]

\* result of findCompanyByHubSpotId when the request succeeds
findCompanyByHubSpotId(hubspotCompanyId) ==
    LET records == SelectFirst(companies, "HubSpot Company ID", hubspotCompanyId)
    IN  IF IsNull(records) THEN Null ELSE Some(CompanyOfRow(The(records)))

createCompanyFields(company) ==
    Assigned(<<
      <<"HubSpot Company ID", company.hubspotCompanyId, TRUE>>,
      <<"Company Name", company.name, TRUE>>,
      <<"Website", company.website, Truthy(company.website)>>,
      <<"Industry", company.industry, Truthy(company.industry)>>,
      <<"Company Size", company.companySize, Truthy(company.companySize)>>,
      <<"Country / Region", company.country, Truthy(company.country)>> >>)

updateCompanyFields(updates) ==
    LET native(k) ==
            CASE k = "name" -> "Company Name"
              [] k = "website" -> "Website"
              [] k = "industry" -> "Industry"
              [] k = "companySize" -> "Company Size"
              [] OTHER -> "Country / Region"
    IN  [i \in 1..Len(updates) |-> <<native(updates[i][1]), updates[i][2]>>]

-----------------------------------------------------------------------------
(* syncDealToProject: local state of one invocation *)

IdleInv ==
    [pc |-> "idle", hubspotDealId |-> "", propertyChanged |-> Undefined,
     deal |-> Null, companyResult |-> Null, linkedCompanyId |-> NoId,
     contact |-> Null, contactResult |-> Null, linkedClientId |-> NoId,
     existing |-> Null, updates |-> <<>>, result |-> Null,
     calls |-> <<>>, thrown |-> Undefined, overlapped |-> FALSE,
     failed |-> {}, hadProject |-> FALSE, degraded |-> {}, fetch |-> Null]

IdleReq ==
    [pc |-> "idle", uniqueDeals |-> <<>>, results |-> <<>>, status |-> 0,
     batch |-> FALSE, redundant |-> FALSE, freshness |-> "absent", events |-> <<>>, rejected |-> Null,
     authentic |-> FALSE,
     fetched |-> <<>>]

\* an invocation that still has store or gateway calls to make
Running(s) == s.pc \notin {"idle", "return"}

\* an invocation inside getDealWithAssociations: s.fetch holds the function's
\* `result`, the association list `to` it is working on and the position i
\* of the next entry
Fetching(s) ==
    s.pc \in {"getDealWithAssociations", "associations.contacts", "contacts.getById",
              "associations.companies", "companies.getById"}

SyncResult(success, action, dealId, projectId, clientId, companyId, message) ==
    [success |-> success, action |-> action, dealId |-> dealId,
     projectId |-> projectId, clientId |-> clientId, companyId |-> companyId,
     message |-> message]

CompanySyncResult(success, action, hubspotCompanyId, airtableCompanyId, message) ==
    [success |-> success, action |-> action, hubspotCompanyId |-> hubspotCompanyId,
     airtableCompanyId |-> airtableCompanyId, message |-> message]

ContactSyncResult(success, action, contactId, clientId, message) ==
    [success |-> success, action |-> action, contactId |-> contactId,
     clientId |-> clientId, message |-> message]

\* the invocation has issued the call `name`
Call(s, name) == [s EXCEPT !.calls = Append(@, name)]

\* the call the invocation has issued last has failed
Failing(s) == [s EXCEPT !.failed = @ \cup {s.calls[Len(s.calls)]}]

\* `return result` of syncDealToProject
Return(s, result) ==
    [s EXCEPT !.pc = "return", !.result = Some(result),
              !.existing = Null, !.updates = <<>>, !.contact = Null]

\* a catch that reports a fixed text in place of error.message
CaughtUnknown(s, message) ==
    Return([s EXCEPT !.thrown = message],
           SyncResult(FALSE, "error", s.hubspotDealId, NoId, NoId, NoId,
                      "Unknown error occurred"))

\* a catch that logs the error and reports the sync as skipped
CaughtSwallowed(s, message) ==
    Return([s EXCEPT !.thrown = message],
           SyncResult(TRUE, "skipped", s.hubspotDealId, NoId, NoId, NoId, message))

\* a top-level catch that reports the failure with success: true
CaughtReportingSuccess(s, message) ==
    Return([s EXCEPT !.thrown = message],
           SyncResult(TRUE, "error", s.hubspotDealId, NoId, NoId, NoId, message))

\* the top-level catch of syncDealToProject
Caught(s, message) ==
    Return([s EXCEPT !.thrown = message],
           SyncResult(FALSE, "error", s.hubspotDealId, NoId, NoId, NoId, message))

\* PART C starts: await findProjectByHubSpotDealId
EnterPartC(s) ==
    [s EXCEPT !.pc = "findProjectByHubSpotDealId",
              !.existing = Null, !.updates = <<>>, !.contact = Null]

\* PART B starts: if (deal.contacts && deal.contacts.length > 0)
EnterPartB(s) ==
    IF Len(The(s.deal).contacts) > 0
    THEN [s EXCEPT !.pc = "getContactDetails", !.existing = Null, !.updates = <<>>]
    ELSE EnterPartC(s)

\* PART A starts: if (deal.company)
EnterPartA(s) ==
    IF ~IsNull(The(s.deal).company)
    THEN [s EXCEPT !.pc = "findCompanyByHubSpotId"]
    ELSE EnterPartB(s)

\* PART A without its fault isolation: a failed company sync is thrown on
\* to the top-level catch
CompanyDonePropagating(s, companyResult) ==
    IF ~companyResult.success THEN Caught(s, companyResult.message)
    ELSE EnterPartB([s EXCEPT
            !.companyResult = Some(companyResult),
            !.linkedCompanyId =
                IF companyResult.airtableCompanyId # NoId
                THEN companyResult.airtableCompanyId ELSE NoId])

\* syncCompanyToAirtable has returned companyResult
CompanyDone(s, companyResult) ==
    EnterPartB([s EXCEPT
        !.companyResult = Some(companyResult),
        !.linkedCompanyId =
            IF companyResult.success /\ companyResult.airtableCompanyId # NoId
            THEN companyResult.airtableCompanyId ELSE NoId])

\* PART B followed by a second attempt at PART A when the Deal's company
\* has not been linked yet
ContactDoneRetryCompany(s, contactResult) ==
    LET linked == contactResult.success /\ contactResult.clientId # NoId
        t == [s EXCEPT !.contactResult = Some(contactResult),
                       !.linkedClientId = IF linked THEN contactResult.clientId ELSE NoId,
                       !.existing = Null, !.updates = <<>>, !.contact = Null]
    IN  IF ~IsNull(The(s.deal).company) /\ s.linkedCompanyId = NoId
        THEN [t EXCEPT !.pc = "findCompanyByHubSpotId"]
        ELSE IF linked /\ s.linkedCompanyId # NoId
        THEN [t EXCEPT !.pc = "linkContactToCompany"]
        ELSE EnterPartC(t)

\* syncContactToClient has returned contactResult
ContactDone(s, contactResult) ==
    LET linked == contactResult.success /\ contactResult.clientId # NoId
        t == [s EXCEPT !.contactResult = Some(contactResult),
                       !.linkedClientId = IF linked THEN contactResult.clientId ELSE NoId,
                       !.existing = Null, !.updates = <<>>, !.contact = Null]
    IN  IF linked /\ s.linkedCompanyId # NoId
        THEN [t EXCEPT !.pc = "linkContactToCompany"]
        ELSE EnterPartC(t)

\* update path, after the link attempts: if (Object.keys(updates).length === 0)
AfterLinks(s) ==
    IF Len(s.updates) = 0
    THEN Return(s, SyncResult(TRUE, "skipped", s.hubspotDealId, The(s.existing).id,
                              s.linkedClientId, s.linkedCompanyId,
                              "No syncable fields changed"))
    ELSE [s EXCEPT !.pc = "updateProject"]

\* update path, after linkProjectToClient: if (linkedCompanyId)
AfterClientLink(s) ==
    IF s.linkedCompanyId # NoId
    THEN [s EXCEPT !.pc = "linkProjectToCompany"]
    ELSE AfterLinks(s)

\* the invocation syncDealToProject(hubspotDealId, propertyChanged) of
\* handler p, run up to its first await
StartInv(p, hubspotDealId, propertyChanged) ==
    [IdleInv EXCEPT !.pc = "getDealWithAssociations",
                    !.hubspotDealId = hubspotDealId,
                    !.propertyChanged = propertyChanged,
                    !.hadProject = ~IsNull(findProjectByHubSpotDealId(hubspotDealId)),
                    !.overlapped = \E q \in ProcIds \ {p} :
                        Running(inv[q]) /\ inv[q].hubspotDealId = hubspotDealId]

\* the invocations already running for the same Deal id now overlap with
\* the one handler p starts
MarkOverlap(p, hubspotDealId) ==
    [q \in ProcIds |->
        IF q # p /\ Running(inv[q]) /\ inv[q].hubspotDealId = hubspotDealId
        THEN [inv[q] EXCEPT !.overlapped = TRUE] ELSE inv[q]]

\* the Deal ids that have been synced by overlapping invocations
OverlapStart(p, hubspotDealId) ==
    ghost.overlapped \cup
        IF \E q \in ProcIds \ {p} :
              Running(inv[q]) /\ inv[q].hubspotDealId = hubspotDealId
        THEN {hubspotDealId} ELSE {}

\* all invocations after handler p has started a new one
InvStart(p, hubspotDealId, propertyChanged) ==
    [MarkOverlap(p, hubspotDealId) EXCEPT
        ![p] = StartInv(p, hubspotDealId, propertyChanged)]

-----------------------------------------------------------------------------
(* routes: the webhook endpoint and the manual trigger *)

ReplayWindowMs == 300000

\* crypto.createHmac('sha256', secret).update(base).digest('base64'):
\* a keyed digest, equal only for equal key and equal text
Hmac(secret, base) == <<"hmac-sha256", secret, base>>

WebhookUrl == "https://host/api/webhooks/hubspot/deal_status"

\* `${method}${url}${rawBody}${timestamp}`
SignatureBase(r) == <<"POST", WebhookUrl, r.body, r.timestamp>>

\* a verification whose window is closed at 300000 ms
verifyHubSpotSignatureClosedWindow(r) ==
    IF IsNull(r.signature) \/ IsNull(r.timestamp) THEN FALSE
    ELSE LET currentTime == r.now
             requestTime == The(r.timestamp)
             diff == IF currentTime >= requestTime
                     THEN currentTime - requestTime ELSE requestTime - currentTime
         IN  IF diff >= ReplayWindowMs THEN FALSE
             ELSE IF cfg.hubspotSecret = "" THEN TRUE
             ELSE The(r.signature) = Hmac(cfg.hubspotSecret, SignatureBase(r))

\* a verification that asks for the two headers and a fresh timestamp only
verifyHubSpotHeadersOnly(r) ==
    IF IsNull(r.signature) \/ IsNull(r.timestamp) THEN FALSE
    ELSE LET currentTime == r.now
             requestTime == The(r.timestamp)
             diff == IF currentTime >= requestTime
                     THEN currentTime - requestTime ELSE requestTime - currentTime
         IN  diff <= ReplayWindowMs

verifyHubSpotSignature(r) ==
    IF IsNull(r.signature) \/ IsNull(r.timestamp) THEN FALSE
    ELSE LET currentTime == r.now
             requestTime == The(r.timestamp)
             diff == IF currentTime >= requestTime
                     THEN currentTime - requestTime ELSE requestTime - currentTime
         IN  IF diff > ReplayWindowMs THEN FALSE
             ELSE IF cfg.hubspotSecret = "" THEN TRUE
             ELSE The(r.signature) = Hmac(cfg.hubspotSecret, SignatureBase(r))

\* the request carries a signature header that is the keyed digest of its
\* method, url, body and timestamp header under the configured secret
Authentic(r) ==
    /\ ~IsNull(r.signature)
    /\ The(r.signature) = Hmac(cfg.hubspotSecret, <<"POST", WebhookUrl, r.body, r.timestamp>>)

\* what the 401 response is later judged by: the request headers, the
\* signature reduced to the key it was made with
Headers(r) ==
    [timestamp |-> r.timestamp, now |-> r.now,
     signedWith |-> IF IsNull(r.signature) THEN Null ELSE Some(The(r.signature)[2])]

PropertyNames == {"dealstage", "amount"}

Payloads == [objectId : DealObjectIds, propertyName : PropertyNames]

RECURSIVE SeqsUpTo(_, _)
\* the sequences over S of length at most n
SeqsUpTo(S, n) ==
    IF n = 0 THEN { <<>> }
    ELSE LET shorter == SeqsUpTo(S, n - 1)
         IN  shorter \cup { Append(q, x) : q \in {t \in shorter : Len(t) = n - 1}, x \in S }

\* The event lists tried: any one event, and longer lists about any deals
\* in which the events about one deal name the two properties in turn,
\* so that two successive events about the same deal differ
Batches ==
    { ps \in SeqsUpTo(Payloads, MaxBatch) :
        Len(ps) >= 2 =>
            \A i \in 1..Len(ps) :
                LET earlier == { j \in 1..(i - 1) : ps[j].objectId = ps[i].objectId }
                IN  ps[i].propertyName =
                        IF Cardinality(earlier) % 2 = 0 THEN "dealstage" ELSE "amount" }

\* req.body: an array of events or a single event object
Bodies ==
    { <<"array", ps>> : ps \in Batches }
    \cup { <<"object", pl>> : pl \in Payloads }

ServerTimes == {1000000}

\* the x-hubspot-signature-v3 headers tried for a body and timestamp
SignatureHeaders(b, ts) ==
    {Null} \cup { Some(Hmac(k, <<"POST", WebhookUrl, b, ts>>)) : k \in {"s3cret", "forged"} }

\* the x-hubspot-request-timestamp headers tried at server time now
TimestampHeaders(now) ==
    {Null} \cup { Some(now - d) : d \in {0, ReplayWindowMs + 1} }

\* timestamps at and just beyond the edges of the window, tried with the
\* sender's signature
WindowEdgeTimestamps(now) ==
    { Some(now - ReplayWindowMs), Some(now + ReplayWindowMs),
      Some(now + ReplayWindowMs + 1) }

\* how the timestamp header of a request stands to the server's clock:
\* five minutes, in milliseconds, either way
Freshness(r) ==
    IF IsNull(r.timestamp) THEN "absent"
    ELSE IF The(r.timestamp) - r.now > 5 * 60 * 1000
            \/ r.now - The(r.timestamp) > 5 * 60 * 1000
    THEN "stale" ELSE "fresh"

\* the events of a request body
PayloadsOf(body) == IF body[1] = "array" THEN body[2] ELSE << body[2] >>

\* The requests tried: every body with a fresh timestamp and the sender's
\* signature, and the bodies of at most one event with every header
WebhookRequests ==
    UNION { UNION { { [body |-> b, timestamp |-> ts, signature |-> sig, now |-> now] :
                        sig \in { h \in SignatureHeaders(b, ts) :
                                    \/ Len(PayloadsOf(b)) <= 1 /\ ts \in TimestampHeaders(now)
                                    \/ /\ ts = Some(now) \/ Len(PayloadsOf(b)) <= 1
                                       /\ h = Some(Hmac("s3cret",
                                            <<"POST", WebhookUrl, b, ts>>)) } } :
                    ts \in TimestampHeaders(now) \cup WindowEdgeTimestamps(now) } :
            b \in Bodies, now \in ServerTimes }

RECURSIVE FirstAppearances(_)
\* the distinct objectIds of a list of events, in order of first appearance
FirstAppearances(payloads) ==
    IF payloads = <<>> THEN <<>>
    ELSE LET front == FirstAppearances(SubSeq(payloads, 1, Len(payloads) - 1))
             objectId == payloads[Len(payloads)].objectId
         IN  IF \E i \in 1..Len(front) : front[i] = objectId
             THEN front ELSE Append(front, objectId)

\* the last event of the list that is about objectId
LastEventOf(payloads, objectId) ==
    payloads[CHOOSE i \in 1..Len(payloads) :
                /\ payloads[i].objectId = objectId
                /\ \A j \in (i + 1)..Len(payloads) : payloads[j].objectId # objectId]

\* what the response to a batch is later judged by: for each distinct
\* objectId, in order of first appearance, the last event about it
LastEvents(payloads) ==
    [i \in 1..Len(FirstAppearances(payloads)) |->
        LastEventOf(payloads, FirstAppearances(payloads)[i])]

\* uniqueDeals.delete(objectId) before uniqueDeals.set(objectId, payload):
\* a key that is set again moves to the end of the Map
MapSetMovingToEnd(map, key, value) ==
    Append(SelectSeq(map, LAMBDA e : e[1] # key), <<key, value>>)

\* push(payload) on a list kept in place of the Map: no key is looked up
MapSetNoDedup(map, key, value) == Append(map, <<key, value>>)

\* uniqueDeals.set(objectId, payload) on a Map kept in insertion order
MapSet(map, key, value) ==
    IF \E i \in 1..Len(map) : map[i][1] = key
    THEN [i \in 1..Len(map) |-> IF map[i][1] = key THEN <<key, value>> ELSE map[i]]
    ELSE Append(map, <<key, value>>)

RECURSIVE Dedup(_, _)
\* for (const payload of payloads) uniqueDeals.set(payload.objectId, payload)
Dedup(map, payloads) ==
    IF payloads = <<>> THEN map
    ELSE Dedup(MapSet(map, Head(payloads).objectId, Head(payloads)), Tail(payloads))

UniqueDeals(payloads) == Dedup(<<>>, payloads)

\* The deal tried when requests are served concurrently
ConcurrentDealObjectIds == {1}

\* The requests tried when requests are served concurrently: fresh ones,
\* unsigned or signed with the shared secret, about the deal stage
ConcurrentWebhookRequests ==
    { r \in WebhookRequests :
        /\ r.timestamp = Some(r.now)
        /\ r.body[1] = "array"
        /\ \A i \in 1..Len(r.body[2]) : r.body[2][i].objectId \in ConcurrentDealObjectIds
        /\ r.signature \in {Null, Some(Hmac("s3cret", SignatureBase(r)))}
        /\ \A i \in 1..Len(r.body[2]) : r.body[2][i].propertyName = "dealstage" }

\* handler p takes the next request: the lowest-numbered idle handler
\* (which handler serves a request is immaterial)
Free(p) == req[p].pc = "idle" /\ \A q \in ProcIds : q < p => req[q].pc # "idle"

\* POST /api/webhooks/hubspot/deal_status, up to the first await of
\* processBatchWebhook
WebhookRequest(p, Requests) ==
    /\ Free(p)
    /\ \E r \in Requests :
        LET payloads == PayloadsOf(r.body)
            uniqueDeals == UniqueDeals(payloads)
            first == uniqueDeals[1]
        IN  IF ~verifyHubSpotSignature(r)
            THEN /\ req' = [req EXCEPT ![p] =
                        [IdleReq EXCEPT !.pc = "responded", !.status = 401,
                                        !.authentic = Authentic(r),
                                        !.freshness = Freshness(r),
                                        !.rejected = Some(Headers(r))]]
                 /\ UNCHANGED <<inv, ghost>>
            ELSE IF Len(payloads) = 0
            THEN /\ req' = [req EXCEPT ![p] =
                        [IdleReq EXCEPT !.pc = "responded", !.status = 200,
                                        !.authentic = Authentic(r),
                                        !.freshness = Freshness(r)]]
                 /\ UNCHANGED <<inv, ghost>>
            ELSE /\ ghost.syncs + Len(uniqueDeals) <= MaxSyncs
                 /\ req' = [req EXCEPT ![p] =
                        [IdleReq EXCEPT !.pc = "processBatchWebhook",
                                        !.batch = TRUE,
                                        !.authentic = Authentic(r),
                                        !.freshness = Freshness(r),
                                        !.redundant =
                                            Len(payloads) > Len(FirstAppearances(payloads)),
                                        !.events = LastEvents(payloads),
                                        !.uniqueDeals = Tail(uniqueDeals)]]
                 /\ inv' = InvStart(p, ToString(first[1]), first[2].propertyName)
                 /\ ghost' = [ghost EXCEPT
                                !.syncs = @ + Len(uniqueDeals),
                                !.overlapped = OverlapStart(p, ToString(first[1]))]
    /\ UNCHANGED <<cfg, hubspot, seed, projects, clients, companies, hist>>

\* POST /api/webhooks/hubspot/test/:dealId, up to the first await of
\* syncDealToProject
ManualTrigger(p, ObjectIds) ==
    /\ Free(p)
    /\ ghost.syncs < MaxSyncs
    /\ \E n \in ObjectIds :
        LET dealId == ToString(n)
        IN  /\ req' = [req EXCEPT ![p] = [IdleReq EXCEPT !.pc = "manual"]]
            /\ inv' = InvStart(p, dealId, Undefined)
            /\ ghost' = [ghost EXCEPT !.syncs = @ + 1,
                                       !.overlapped = OverlapStart(p, dealId)]
    /\ UNCHANGED <<cfg, hubspot, seed, projects, clients, companies, hist>>

-----------------------------------------------------------------------------
(* syncDealToProject, one action per awaited call.  A store or gateway     *)
(* call either succeeds or fails; how a failure surfaces is the wrapper's  *)
(* own catch block.                                                        *)

SetInv(p, I, J, s) == J = [I EXCEPT ![p] = s]

\* the awaited call succeeds
Succeeds == UNCHANGED ghost

\* the awaited call fails (at most MaxFaults calls fail in a run)
Fails == ghost.faults < MaxFaults /\ ghost' = [ghost EXCEPT !.faults = @ + 1]

\* a missing deal treated as nothing to do
DealNotFoundSkipped(s) ==
    Return(s, SyncResult(TRUE, "skipped", s.hubspotDealId, NoId, NoId, NoId,
                         "Deal " \o s.hubspotDealId \o " not found in HubSpot"))

\* if (!deal) return { success: false, action: 'error', ... }
DealNotFound(s) ==
    Return(s, SyncResult(FALSE, "error", s.hubspotDealId, NoId, NoId, NoId,
                         "Deal " \o s.hubspotDealId \o " not found in HubSpot"))

\* a sync that does nothing for an event about the amount
FetchedUnlessAmount(s, answer) ==
    LET t == [Call(s, "getDealWithAssociations") EXCEPT !.deal = answer, !.fetch = Null]
    IN  IF s.propertyChanged = "amount"
        THEN Return(t, SyncResult(TRUE, "skipped", s.hubspotDealId, NoId, NoId, NoId,
                                  "Property amount is not synced"))
        ELSE IF IsNull(answer) THEN DealNotFound(t)
        ELSE EnterPartA(t)

\* the invocation s once getDealWithAssociations has answered: up to the
\* next await
Fetched(s, answer) ==
    LET t == [Call(s, "getDealWithAssociations") EXCEPT !.deal = answer, !.fetch = Null]
    IN  IF IsNull(answer) THEN DealNotFound(t) ELSE EnterPartA(t)

\* a request of the fetch has failed
Degraded(s, request) == [s EXCEPT !.degraded = @ \cup {request}]

\* getDealWithAssociations goes on to the company associations
ContactsResolved(s) ==
    [s EXCEPT !.pc = "associations.companies", !.fetch = Some([The(@) EXCEPT !.to = <<>>, !.i = 0])]

\* A request to HubSpot about `object` is answered with `value`: what the
\* object held when HubSpot last answered about it or, after an edit in
\* HubSpot (at most MaxEdits in a run), another value
Answers(object, value) ==
    IF value = hubspot[object] THEN UNCHANGED hubspot
    ELSE /\ hubspot.edits < MaxEdits
         /\ hubspot' = [hubspot EXCEPT ![object] = value, !.edits = @ + 1]

\* Step 1: const deal = await getDealWithAssociations(hubspotDealId), up to
\* the answer to `await getDealById(dealId)`, which is null for a missing
\* deal and for a failed request
GetDealById(p, I, J, concurrent) ==
    /\ I[p].pc = "getDealWithAssociations"
    /\ LET s == I[p]
       IN  \/ /\ SetInv(p, I, J, Fetched(Degraded(s, "deals.getById"), Null))
              /\ UNCHANGED hubspot
           \/ \E deal \in HubSpotAnswers(concurrent).deal :
                 /\ Answers("deal", deal)
                 /\ SetInv(p, I, J, [s EXCEPT
                        !.pc = "associations.contacts",
                        !.fetch = Some([result |-> Deal(s.hubspotDealId, deal.stageId,
                                                        deal.content, <<>>, Null),
                                        to |-> <<>>, i |-> 0])])
    /\ req' = [req EXCEPT ![p].fetched = Append(@, I[p].hubspotDealId)]
    /\ UNCHANGED <<cfg, seed, projects, clients, companies, hist, ghost>>

\* getDealWithAssociations: await associations.batchApi.read('deals', 'contacts', ...)
\* in its own try/catch; at most five of the associated contacts are fetched
ReadContactAssociations(p, I, J, concurrent) ==
    /\ I[p].pc = "associations.contacts"
    /\ LET s == I[p]
       IN  \/ /\ Succeeds
              /\ \E to \in HubSpotAnswers(concurrent).contacts :
                    LET first == SubSeq(to, 1, IF Len(to) > 5 THEN 5 ELSE Len(to))
                    IN  /\ Answers("contacts", to)
                        /\ IF Len(to) > 0
                           THEN SetInv(p, I, J, [s EXCEPT
                                   !.pc = "contacts.getById",
                                   !.fetch = Some([The(@) EXCEPT !.to = first, !.i = 1])])
                           ELSE SetInv(p, I, J, ContactsResolved(s))
           \/ /\ Fails
              /\ SetInv(p, I, J, ContactsResolved(Degraded(s, "associations.contacts")))
              /\ UNCHANGED hubspot
    /\ UNCHANGED <<cfg, seed, projects, clients, companies, req, hist>>

\* getDealWithAssociations: await contacts.basicApi.getById(contactId, ...)
\* in the loop over the associations, each turn in its own try/catch
GetContactById(p, I, J) ==
    /\ I[p].pc = "contacts.getById"
    /\ LET s == I[p]
           fetch == The(s.fetch)
           contactId == fetch.to[fetch.i]
           next(t) == IF fetch.i < Len(fetch.to)
                      THEN [t EXCEPT !.fetch = Some([The(@) EXCEPT !.i = @ + 1])]
                      ELSE ContactsResolved(t)
       IN  \/ /\ Succeeds
              /\ \E contact \in { c \in ContactInputs : c.id = contactId } :
                    /\ Answers("contact", contact)
                    /\ SetInv(p, I, J, next([s EXCEPT !.fetch =
                           Some([The(@) EXCEPT !.result.contacts =
                                    Append(@, [contact EXCEPT !.companyName = Undefined])])]))
           \/ /\ Fails
              /\ SetInv(p, I, J, next(Degraded(s, "contacts.getById." \o ToString(fetch.i))))
              /\ UNCHANGED hubspot
    /\ UNCHANGED <<cfg, seed, projects, clients, companies, req, hist>>

\* getDealWithAssociations: await associations.batchApi.read('deals', 'companies', ...)
\* in its own try/catch; only the first associated company is fetched
ReadCompanyAssociations(p, I, J, concurrent) ==
    /\ I[p].pc = "associations.companies"
    /\ LET s == I[p]
           result == The(s.fetch).result
       IN  \/ /\ Succeeds
              /\ \E to \in HubSpotAnswers(concurrent).companies :
                    /\ Answers("companies", to)
                    /\ IF Len(to) > 0
                       THEN SetInv(p, I, J, [s EXCEPT
                               !.pc = "companies.getById",
                               !.fetch = Some([The(@) EXCEPT !.to = <<to[1]>>, !.i = 1])])
                       ELSE SetInv(p, I, J, Fetched(s, Some(result)))
           \/ /\ Fails
              /\ SetInv(p, I, J, Fetched(Degraded(s, "associations.companies"), Some(result)))
              /\ UNCHANGED hubspot
    /\ UNCHANGED <<cfg, seed, projects, clients, companies, req, hist>>

\* getDealWithAssociations: await companies.basicApi.getById(companyId, ...)
\* in its own try/catch, and `return result`
GetCompanyById(p, I, J) ==
    /\ I[p].pc = "companies.getById"
    /\ LET s == I[p]
           fetch == The(s.fetch)
       IN  \/ /\ Succeeds
              /\ \E company \in { c \in CompanyInputs : c.id = fetch.to[1] } :
                    /\ Answers("company", company)
                    /\ SetInv(p, I, J, Fetched(s, Some([fetch.result EXCEPT
                                                         !.company = Some(company)])))
           \/ /\ Fails
              /\ SetInv(p, I, J, Fetched(Degraded(s, "companies.getById"), Some(fetch.result)))
              /\ UNCHANGED hubspot
    /\ UNCHANGED <<cfg, seed, projects, clients, companies, req, hist>>

\* if (Object.keys(updates).length === 0) in syncCompanyToAirtable and
\* syncContactToClient
updatesEmpty(updates) == Len(updates) = 0

\* PART A, syncCompanyToAirtable: await findCompanyByHubSpotId(company.id)
\* (what buildCompanyUpdates throws is caught by syncCompanyToAirtable)
FindCompanyByHubSpotId(p, I, J) ==
    /\ I[p].pc = "findCompanyByHubSpotId"
    /\ LET s == Call(I[p], "findCompanyByHubSpotId")
           company == The(The(s.deal).company)
           existingCompany == findCompanyByHubSpotId(company.id)
           updates == buildCompanyUpdates(company, The(existingCompany))
       IN  \/ /\ Succeeds
              /\ IF IsNull(existingCompany)
                 THEN SetInv(p, I, J, [s EXCEPT !.pc = "createCompany"])
                 ELSE IF updates.thrown # Undefined
                 THEN SetInv(p, I, J, CompanyDone(s, CompanySyncResult(FALSE, "error", company.id,
                             NoId, updates.thrown)))
                 ELSE IF updatesEmpty(updates.value)
                 THEN SetInv(p, I, J, CompanyDone(s, CompanySyncResult(TRUE, "skipped", company.id,
                             The(existingCompany).id, "No company fields changed")))
                 ELSE SetInv(p, I, J, [s EXCEPT !.pc = "updateCompany",
                                          !.existing = existingCompany,
                                          !.updates = updates.value])
           \/ /\ Fails
              /\ \E e \in AirtableErrors :
                    SetInv(p, I, J, CompanyDone(Failing(s),
                           CompanySyncResult(FALSE, "error", company.id, NoId, e)))
    /\ UNCHANGED <<cfg, hubspot, seed, projects, clients, companies, req, hist>>

\* PART A, syncCompanyToAirtable: await updateCompany(existingCompany.id, updates)
UpdateCompany(p, I, J) ==
    /\ I[p].pc = "updateCompany"
    /\ LET s == Call(I[p], "updateCompany")
           company == The(The(s.deal).company)
           id == The(s.existing).id
       IN  \/ /\ Succeeds
              /\ companies' = UpdateRow(companies, id, updateCompanyFields(s.updates))
              /\ SetInv(p, I, J, CompanyDone(s, CompanySyncResult(TRUE, "updated", company.id, id,
                          "Updated company with fields: " \o JoinWith(Keys(s.updates), ", "))))
           \/ /\ Fails
              /\ \E e \in AirtableErrors :
                    SetInv(p, I, J, CompanyDone(Failing(s),
                           CompanySyncResult(FALSE, "error", company.id, NoId, e)))
              /\ UNCHANGED companies
    /\ UNCHANGED <<cfg, hubspot, seed, projects, clients, req, hist>>

\* PART A, syncCompanyToAirtable: await createCompany(companyInput)
CreateCompany(p, I, J) ==
    /\ I[p].pc = "createCompany"
    /\ LET s == Call(I[p], "createCompany")
           company == The(The(s.deal).company)
           companyInput == buildCompanyFromHubSpot(company)
       IN  \/ /\ Succeeds
              /\ companies' = CreateRow(companies, EmptyCompanyRow,
                                        createCompanyFields(companyInput))
              /\ SetInv(p, I, J, CompanyDone(s, CompanySyncResult(TRUE, "created", company.id,
                          Len(companies) + 1, "Created new company: " \o companyInput.name)))
           \/ /\ Fails
              /\ \E e \in AirtableErrors :
                    SetInv(p, I, J, CompanyDone(Failing(s),
                           CompanySyncResult(FALSE, "error", company.id, NoId, e)))
              /\ UNCHANGED companies
    /\ UNCHANGED <<cfg, hubspot, seed, projects, clients, req, hist>>

\* PART B, syncContactToClient: await getContactDetails(hubspotContactId)
\* (the gateway answers null for a missing contact and for a failed request,
\* and else the contact as HubSpot holds it now, which need not be the
\* contact the deal's associations were resolved to)
GetContactDetails(p, I, J) ==
    /\ I[p].pc = "getContactDetails"
    /\ LET s == Call(I[p], "getContactDetails")
           hubspotContactId == The(s.deal).contacts[1].id
       IN  \/ /\ Succeeds
              /\ \E c \in {x \in ContactInputs : x.id = hubspotContactId} :
                    /\ Answers("contact", c)
                    /\ SetInv(p, I, J, [s EXCEPT !.pc = "findClientByHubSpotContactId",
                                           !.contact = Some(c)])
           \/ /\ Fails
              /\ SetInv(p, I, J, ContactDone(Failing(s), ContactSyncResult(FALSE, "error", hubspotContactId,
                          NoId, "Contact " \o hubspotContactId \o " not found in HubSpot")))
              /\ UNCHANGED hubspot
    /\ UNCHANGED <<cfg, seed, projects, clients, companies, req, hist>>

\* PART B, syncContactToClient: await findClientByHubSpotContactId(hubspotContactId)
\* (the wrapper catches a failed request and answers null)
FindClientByHubSpotContactId(p, I, J) ==
    /\ I[p].pc = "findClientByHubSpotContactId"
    /\ \E failed \in BOOLEAN :
        LET c == Call(I[p], "findClientByHubSpotContactId")
            s == IF failed THEN Failing(c) ELSE c
            hubspotContactId == The(s.deal).contacts[1].id
            contact == The(s.contact)
            existingClient ==
                IF failed THEN Null ELSE findClientByHubSpotContactId(hubspotContactId)
            updates == buildClientUpdates(contact, The(existingClient))
        IN  /\ IF failed THEN Fails ELSE Succeeds
            /\ IF IsNull(existingClient)
               THEN SetInv(p, I, J, [s EXCEPT !.pc = "createClient"])
               ELSE IF updatesEmpty(updates)
               THEN SetInv(p, I, J, ContactDone(s, ContactSyncResult(TRUE, "skipped", hubspotContactId,
                           The(existingClient).id, "No contact fields changed")))
               ELSE SetInv(p, I, J, [s EXCEPT !.pc = "updateClient",
                                        !.existing = existingClient,
                                        !.updates = updates])
    /\ UNCHANGED <<cfg, hubspot, seed, projects, clients, companies, req, hist>>

\* PART B, syncContactToClient: await updateClient(existingClient.id, updates)
UpdateClient(p, I, J) ==
    /\ I[p].pc = "updateClient"
    /\ LET s == Call(I[p], "updateClient")
           hubspotContactId == The(s.deal).contacts[1].id
           id == The(s.existing).id
       IN  \/ /\ Succeeds
              /\ clients' = UpdateRow(clients, id, updateClientFields(s.updates))
              /\ SetInv(p, I, J, ContactDone(s, ContactSyncResult(TRUE, "updated", hubspotContactId, id,
                          "Updated client with fields: " \o JoinWith(Keys(s.updates), ", "))))
           \/ /\ Fails
              /\ \E e \in AirtableErrors :
                    SetInv(p, I, J, ContactDone(Failing(s), ContactSyncResult(FALSE, "error", hubspotContactId, NoId,
                                "Failed to update client in Airtable: " \o e)))
              /\ UNCHANGED clients
    /\ UNCHANGED <<cfg, hubspot, seed, projects, companies, req, hist>>

\* PART B, syncContactToClient: await createClient(clientInput)
CreateClient(p, I, J) ==
    /\ I[p].pc = "createClient"
    /\ LET s == Call(I[p], "createClient")
           hubspotContactId == The(s.deal).contacts[1].id
           clientInput == buildClientFromContact(The(s.contact))
       IN  \/ /\ Succeeds
              /\ clients' = CreateRow(clients, EmptyClientRow, createClientFields(clientInput))
              /\ SetInv(p, I, J, ContactDone(s, ContactSyncResult(TRUE, "created", hubspotContactId,
                          Len(clients) + 1,
                          "Created new client: " \o clientInput.firstName \o " "
                            \o clientInput.lastName)))
           \/ /\ Fails
              /\ \E e \in AirtableErrors :
                    SetInv(p, I, J, ContactDone(Failing(s), ContactSyncResult(FALSE, "error", hubspotContactId, NoId,
                                "Failed to create client in Airtable: " \o e)))
              /\ UNCHANGED clients
    /\ UNCHANGED <<cfg, hubspot, seed, projects, companies, req, hist>>

\* a failed link call thrown on to the top-level catch
LinkFailurePropagating(s, continued) ==
    Caught(s, "Failed to link records in Airtable")

\* catch (e) { console.log(...) } around a link call: the invocation s goes
\* on as `continued`, the state it would be in had the call succeeded
LinkFailureSwallowed(s, continued) == continued

\* PART B: try { await linkContactToCompany(linkedClientId, linkedCompanyId) } catch {}
LinkContactToCompany(p, I, J) ==
    /\ I[p].pc = "linkContactToCompany"
    /\ LET s == Call(I[p], "linkContactToCompany")
       IN  \/ /\ Succeeds
              /\ clients' = UpdateRow(clients, s.linkedClientId,
                                      linkContactToCompanyFields(s.linkedCompanyId))
              /\ SetInv(p, I, J, EnterPartC(s))
           \/ /\ Fails
              /\ UNCHANGED clients
              /\ SetInv(p, I, J, LinkFailureSwallowed(Failing(s), EnterPartC(Failing(s))))
    /\ UNCHANGED <<cfg, hubspot, seed, projects, companies, req, hist>>

\* a gate that lets every stage through
shouldCreateAlways(deal) == TRUE

\* const stageId = deal.stageId.toLowerCase();
\* const shouldCreate = config.webhooks.projectCreationStages.includes(stageId)
shouldCreateProject(deal) == ToLowerCase(deal.stageId) \in cfg.projectCreationStages

\* a flag that is not consulted: updates are always made
updatesAlwaysEnabled == TRUE

\* config.webhooks.enableUpdates
updatesEnabled == cfg.enableUpdates

\* PART C: const existingProject = await findProjectByHubSpotDealId(hubspotDealId)
\* (the wrapper catches a failed request and answers null)
FindProjectByHubSpotDealId(p, I, J) ==
    /\ I[p].pc = "findProjectByHubSpotDealId"
    /\ \E failed \in BOOLEAN :
        LET c == Call(I[p], "findProjectByHubSpotDealId")
            s == IF failed THEN Failing(c) ELSE c
            deal == The(s.deal)
            existingProject ==
                IF failed THEN Null ELSE findProjectByHubSpotDealId(s.hubspotDealId)
            shouldCreate == shouldCreateProject(deal)
            t == [s EXCEPT !.existing = existingProject,
                           !.updates = buildProjectUpdates(deal, The(existingProject))]
        IN  /\ IF failed THEN Fails ELSE Succeeds
            /\ IF ~IsNull(existingProject)
               THEN IF ~updatesEnabled
                    THEN SetInv(p, I, J, Return(s, SyncResult(TRUE, "skipped", s.hubspotDealId,
                                The(existingProject).id, s.linkedClientId, s.linkedCompanyId,
                                "Updates disabled in config")))
                    ELSE IF s.linkedClientId # NoId
                    THEN SetInv(p, I, J, [t EXCEPT !.pc = "linkProjectToClient"])
                    ELSE SetInv(p, I, J, AfterClientLink(t))
               ELSE IF ~shouldCreate
                    THEN SetInv(p, I, J, Return(s, SyncResult(TRUE, "skipped", s.hubspotDealId,
                                NoId, s.linkedClientId, s.linkedCompanyId,
                                "Deal stage '" \o deal.stage \o "' does not trigger project creation")))
                    ELSE SetInv(p, I, J, [s EXCEPT !.pc = "createProject"])
    /\ UNCHANGED <<cfg, hubspot, seed, projects, clients, companies, req, hist>>

\* PART C, update path: try { await linkProjectToClient(existingProject.id, linkedClientId) } catch {}
LinkProjectToClient(p, I, J) ==
    /\ I[p].pc = "linkProjectToClient"
    /\ LET s == Call(I[p], "linkProjectToClient")
       IN  \/ /\ Succeeds
              /\ projects' = UpdateRow(projects, The(s.existing).id,
                                       linkProjectToClientFields(s.linkedClientId))
              /\ SetInv(p, I, J, AfterClientLink(s))
           \/ /\ Fails
              /\ UNCHANGED projects
              /\ SetInv(p, I, J, LinkFailureSwallowed(Failing(s), AfterClientLink(Failing(s))))
    /\ UNCHANGED <<cfg, hubspot, seed, clients, companies, req, hist>>

\* PART C, update path: try { await linkProjectToCompany(existingProject.id, linkedCompanyId) } catch {}
LinkProjectToCompany(p, I, J) ==
    /\ I[p].pc = "linkProjectToCompany"
    /\ LET s == Call(I[p], "linkProjectToCompany")
       IN  \/ /\ Succeeds
              /\ projects' = UpdateRow(projects, The(s.existing).id,
                                       linkProjectToCompanyFields(s.linkedCompanyId))
              /\ SetInv(p, I, J, AfterLinks(s))
           \/ /\ Fails
              /\ UNCHANGED projects
              /\ SetInv(p, I, J, LinkFailureSwallowed(Failing(s), AfterLinks(Failing(s))))
    /\ UNCHANGED <<cfg, hubspot, seed, clients, companies, req, hist>>

\* PART C, update path: const updatedProject = await updateProject(existingProject.id, updates)
UpdateProject(p, I, J) ==
    /\ I[p].pc = "updateProject"
    /\ LET s == Call(I[p], "updateProject")
           id == The(s.existing).id
       IN  \/ /\ Succeeds
              /\ projects' = UpdateRow(projects, id, updateProjectFields(s.updates))
              /\ SetInv(p, I, J, Return(s, SyncResult(TRUE, "updated", s.hubspotDealId, id,
                          s.linkedClientId, s.linkedCompanyId,
                          "Updated project with fields: " \o JoinWith(Keys(s.updates), ", "))))
           \/ /\ Fails
              /\ \E e \in AirtableErrors :
                    SetInv(p, I, J, Caught(Failing(s), "Failed to update project in Airtable: " \o e))
              /\ UNCHANGED projects
    /\ UNCHANGED <<cfg, hubspot, seed, clients, companies, req, hist>>

\* PART C, create path: const newProject = await createProject(projectInput)
CreateProject(p, I, J) ==
    /\ I[p].pc = "createProject"
    /\ LET s == Call(I[p], "createProject")
           projectInput == buildProjectFromDeal(The(s.deal), s.linkedClientId, s.linkedCompanyId)
           newProject == createProjectResult(projectInput, Len(projects) + 1)
       IN  \/ /\ Succeeds
              /\ projects' = CreateRow(projects, EmptyProjectRow,
                                       createProjectFields(projectInput))
              /\ SetInv(p, I, J, Return(s, SyncResult(TRUE, "created", s.hubspotDealId,
                          newProject.id, s.linkedClientId, s.linkedCompanyId,
                          "Created new project: " \o Chars(newProject.name)
                            \o (IF s.linkedClientId # NoId
                                THEN " (linked to client " \o ToString(s.linkedClientId) \o ")"
                                ELSE "")
                            \o (IF s.linkedCompanyId # NoId
                                THEN " (company " \o ToString(s.linkedCompanyId) \o ")"
                                ELSE ""))))
           \/ /\ Fails
              /\ \E e \in AirtableErrors :
                    SetInv(p, I, J, Caught(Failing(s), "Failed to create project in Airtable: " \o e))
              /\ UNCHANGED projects
    /\ UNCHANGED <<cfg, hubspot, seed, clients, companies, req, hist>>

-----------------------------------------------------------------------------
(* The callers of syncDealToProject receive its result *)

\* what the history keeps of a completed invocation: the sync of a Deal id
\* that last wrote its Project, until another sync of the id completes
Summary(s) ==
    IF The(s.result).action \in {"created", "updated"}
    THEN Some([deal |-> s.deal, action |-> The(s.result).action,
               overlapped |-> s.overlapped])
    ELSE Null

\* a batch loop that stops at the first `error` result
CompleteAborting(p) ==
    /\ inv[p].pc = "return"
    /\ LET s == inv[p]
           results == Append(req[p].results, The(s.result))
           next == req[p].uniqueDeals[1]
       IN  /\ hist' = [hist EXCEPT ![s.hubspotDealId] = Summary(s)]
           /\ IF /\ req[p].pc = "processBatchWebhook"
                 /\ req[p].uniqueDeals # <<>>
                 /\ The(s.result).action # "error"
              THEN /\ req' = [req EXCEPT ![p].results = results,
                                         ![p].uniqueDeals = Tail(@)]
                   /\ inv' = InvStart(p, ToString(next[1]), next[2].propertyName)
                   /\ ghost' = [ghost EXCEPT
                                  !.overlapped = OverlapStart(p, ToString(next[1]))]
              ELSE /\ req' = [req EXCEPT ![p].results = results,
                                         ![p].pc = "responded",
                                         ![p].status = 200]
                   /\ inv' = [inv EXCEPT ![p] = IdleInv]
                   /\ UNCHANGED ghost
    /\ UNCHANGED <<cfg, hubspot, seed, projects, clients, companies>>

\* syncDealToProject has returned.  In processBatchWebhook the result is
\* pushed and the loop calls syncDealToProject for the next unique id, or
\* returns the results to the route, which responds; the manual trigger
\* responds with the result.
Complete(p) ==
    /\ inv[p].pc = "return"
    /\ LET s == inv[p]
           results == Append(req[p].results, The(s.result))
           next == req[p].uniqueDeals[1]
       IN  /\ hist' = [hist EXCEPT ![s.hubspotDealId] = Summary(s)]
           /\ IF req[p].pc = "processBatchWebhook" /\ req[p].uniqueDeals # <<>>
              THEN /\ req' = [req EXCEPT ![p].results = results,
                                         ![p].uniqueDeals = Tail(@)]
                   /\ inv' = InvStart(p, ToString(next[1]), next[2].propertyName)
                   /\ ghost' = [ghost EXCEPT
                                  !.overlapped = OverlapStart(p, ToString(next[1]))]
              ELSE /\ req' = [req EXCEPT ![p].results = results,
                                         ![p].pc = "responded",
                                         ![p].status = 200]
                   /\ inv' = [inv EXCEPT ![p] = IdleInv]
                   /\ UNCHANGED ghost
    /\ UNCHANGED <<cfg, hubspot, seed, projects, clients, companies>>

\* the response has been sent; the handler is free for the next request
Close(p) ==
    /\ req[p].pc = "responded"
    /\ req' = [req EXCEPT ![p] = IdleReq]
    /\ UNCHANGED <<cfg, hubspot, seed, projects, clients, companies, inv, hist, ghost>>

-----------------------------------------------------------------------------
(* Specification *)

-----------------------------------------------------------------------------
(* seed_service: seedDemoData *)

DEMO_COMPANIES ==
    << [name |-> "Acme Corp", website |-> "https://acme.example.com",
        industry |-> "Technology", size |-> "51-200", country |-> "US",
        status |-> "Active Client"],
       [name |-> "Globex Systems", website |-> "https://globex.example.com",
        industry |-> "Finance", size |-> "201-500", country |-> "US",
        status |-> "Active Client"],
       [name |-> "Automate This", website |-> "https://automatethis.example.com",
        industry |-> "Software", size |-> "11-50", country |-> "CA",
        status |-> "Prospect"],
       [name |-> "Initech Solutions", website |-> "https://initech.example.com",
        industry |-> "Consulting", size |-> "51-200", country |-> "UK",
        status |-> "Active Client"],
       [name |-> "Umbrella Industries", website |-> "https://umbrella.example.com",
        industry |-> "Healthcare", size |-> "501-1000", country |-> "US",
        status |-> "Prospect"] >>

DEMO_CONTACTS ==
    << [firstName |-> "Alice", lastName |-> "Johnson", email |-> "alice.johnson@acme.example.com",
        phone |-> "+1-555-0101", title |-> "CEO", companyIndex |-> 0],
       [firstName |-> "Bob", lastName |-> "Smith", email |-> "bob.smith@acme.example.com",
        phone |-> "+1-555-0102", title |-> "CTO", companyIndex |-> 0],
       [firstName |-> "Carol", lastName |-> "Williams", email |-> "carol.williams@acme.example.com",
        phone |-> "+1-555-0103", title |-> "Project Manager", companyIndex |-> 0],
       [firstName |-> "David", lastName |-> "Brown", email |-> "david.brown@globex.example.com",
        phone |-> "+1-555-0201", title |-> "CFO", companyIndex |-> 1],
       [firstName |-> "Emma", lastName |-> "Davis", email |-> "emma.davis@globex.example.com",
        phone |-> "+1-555-0202", title |-> "VP Operations", companyIndex |-> 1],
       [firstName |-> "Frank", lastName |-> "Miller", email |-> "frank.miller@globex.example.com",
        phone |-> "+1-555-0203", title |-> "Director", companyIndex |-> 1],
       [firstName |-> "Grace", lastName |-> "Wilson", email |-> "grace.wilson@automatethis.example.com",
        phone |-> "+1-555-0301", title |-> "Founder", companyIndex |-> 2],
       [firstName |-> "Henry", lastName |-> "Moore", email |-> "henry.moore@automatethis.example.com",
        phone |-> "+1-555-0302", title |-> "Lead Developer", companyIndex |-> 2],
       [firstName |-> "Ivy", lastName |-> "Taylor", email |-> "ivy.taylor@automatethis.example.com",
        phone |-> "+1-555-0303", title |-> "Product Manager", companyIndex |-> 2],
       [firstName |-> "Jack", lastName |-> "Anderson", email |-> "jack.anderson@initech.example.com",
        phone |-> "+1-555-0401", title |-> "Managing Partner", companyIndex |-> 3],
       [firstName |-> "Karen", lastName |-> "Thomas", email |-> "karen.thomas@initech.example.com",
        phone |-> "+1-555-0402", title |-> "Senior Consultant", companyIndex |-> 3],
       [firstName |-> "Leo", lastName |-> "Jackson", email |-> "leo.jackson@initech.example.com",
        phone |-> "+1-555-0403", title |-> "Analyst", companyIndex |-> 3],
       [firstName |-> "Mia", lastName |-> "White", email |-> "mia.white@umbrella.example.com",
        phone |-> "+1-555-0501", title |-> "COO", companyIndex |-> 4],
       [firstName |-> "Nathan", lastName |-> "Harris", email |-> "nathan.harris@umbrella.example.com",
        phone |-> "+1-555-0502", title |-> "VP Research", companyIndex |-> 4],
       [firstName |-> "Olivia", lastName |-> "Martin", email |-> "olivia.martin@umbrella.example.com",
        phone |-> "+1-555-0503", title |-> "Program Director", companyIndex |-> 4] >>

DEMO_PROJECTS ==
    << [name |-> "Digital Transformation Initiative", status |-> "Active",
        budget |-> 150000, startDate |-> "2025-01-15", contactIndex |-> 0],
       [name |-> "Cloud Migration Phase 1", status |-> "Active",
        budget |-> 85000, startDate |-> "2025-02-01", contactIndex |-> 1],
       [name |-> "Financial Systems Upgrade", status |-> "Planning",
        budget |-> 200000, startDate |-> "2025-03-01", contactIndex |-> 3],
       [name |-> "Process Automation Suite", status |-> "Active",
        budget |-> 120000, startDate |-> "2025-01-20", contactIndex |-> 6],
       [name |-> "Data Analytics Platform", status |-> "Completed",
        budget |-> 95000, startDate |-> "2024-10-01", contactIndex |-> 4],
       [name |-> "Customer Portal Development", status |-> "Active",
        budget |-> 175000, startDate |-> "2025-02-15", contactIndex |-> 9],
       [name |-> "Security Compliance Audit", status |-> "Planning",
        budget |-> 45000, startDate |-> "2025-04-01", contactIndex |-> 10],
       [name |-> "Mobile App Development", status |-> "Active",
        budget |-> 130000, startDate |-> "2025-01-10", contactIndex |-> 7],
       [name |-> "Research Data Management", status |-> "Planning",
        budget |-> 180000, startDate |-> "2025-05-01", contactIndex |-> 12],
       [name |-> "Integration Platform Build", status |-> "Active",
        budget |-> 110000, startDate |-> "2025-02-20", contactIndex |-> 2] >>

\* no seeding has been started.  `await` is the request of the loop turn
\* that is in flight; companyIds / contactIds are the `records` arrays of
\* seedCompanies / seedContacts; the three SeedStats count created and skipped
IdleSeed ==
    [pc |-> "idle", i |-> 0, await |-> "select",
     companyIds |-> <<>>, contactIds |-> <<>>,
     companies |-> [created |-> 0, skipped |-> 0],
     contacts |-> [created |-> 0, skipped |-> 0],
     projects |-> [created |-> 0, skipped |-> 0],
     faults |-> 0]

\* array[index]?.id of a CreatedRecord[]: undefined past the end
IdAt(records, index) ==
    IF index + 1 <= Len(records) THEN records[index + 1].id ELSE NoId

\* requests, other than company creations, that have failed in the seedings
SeedFaults ==
    LET RECURSIVE upTo(_)
        upTo(n) == IF n = 0 THEN 0 ELSE seed[n].faults + upTo(n - 1)
    IN  upTo(MaxSeedings)

\* POST /api/seed/demo: seedDemoData starts with seedCompanies
SeedDemoData(s) ==
    /\ seed[s].pc = "idle"
    /\ seed' = [seed EXCEPT ![s].pc = "seedCompanies", ![s].i = 1]
    /\ UNCHANGED <<cfg, hubspot, projects, clients, companies, req, inv, hist, ghost>>

\* the loop turn is over (continue, end of the try, or the catch): on to the
\* next entry, or to the next function after the last entry
SeedAdvance(s, list, next) ==
    IF s.i < Len(list) THEN [s EXCEPT !.i = @ + 1, !.await = "select"]
    ELSE [s EXCEPT !.pc = next, !.i = 1, !.await = "select"]

\* seedCompanies, first await of a loop turn: the company is looked up by
\* name; one found is pushed and counted as skipped; a failed request is logged
SeedCompanySelect(s) ==
    /\ seed[s].pc = "seedCompanies" /\ seed[s].await = "select"
    /\ LET company == DEMO_COMPANIES[seed[s].i]
           existing == SelectFirst(companies, "Company Name", company.name)
       IN  \/ /\ ~IsNull(existing)
              /\ seed' = [seed EXCEPT ![s] = SeedAdvance(
                              [@ EXCEPT !.companyIds =
                                            Append(@, [id |-> The(existing)["id"],
                                                       name |-> company.name]),
                                        !.companies.skipped = @ + 1],
                              DEMO_COMPANIES, "seedContacts")]
           \/ /\ IsNull(existing)
              /\ seed' = [seed EXCEPT ![s].await = "create"]
           \/ /\ SeedFaults < MaxSeedFaults
              /\ seed' = [seed EXCEPT ![s] = SeedAdvance([@ EXCEPT !.faults = @ + 1],
                                                         DEMO_COMPANIES, "seedContacts")]
    /\ UNCHANGED <<cfg, hubspot, projects, clients, companies, req, inv, hist, ghost>>

\* seedCompanies, second await of a loop turn: the company is created and
\* pushed; a failed request is logged
SeedCompanyCreate(s) ==
    /\ seed[s].pc = "seedCompanies" /\ seed[s].await = "create"
    /\ LET company == DEMO_COMPANIES[seed[s].i]
           fields == << <<"Company Name", company.name>>,
                        <<"Website", company.website>>,
                        <<"Industry", company.industry>>,
                        <<"Company Size", company.size>>,
                        <<"Country / Region", company.country>>,
                        <<"Status", company.status>> >>
       IN  \/ /\ companies' = CreateRow(companies, EmptyCompanyRow, fields)
              /\ seed' = [seed EXCEPT ![s] = SeedAdvance(
                              [@ EXCEPT !.companyIds =
                                            Append(@, [id |-> Len(companies) + 1,
                                                       name |-> company.name]),
                                        !.companies.created = @ + 1],
                              DEMO_COMPANIES, "seedContacts")]
           \/ /\ seed' = [seed EXCEPT ![s] = SeedAdvance(@, DEMO_COMPANIES, "seedContacts")]
              /\ UNCHANGED companies
    /\ UNCHANGED <<cfg, hubspot, projects, clients, req, inv, hist, ghost>>

\* seedContacts, first await of a loop turn: the contact is looked up by email
SeedContactSelect(s) ==
    /\ seed[s].pc = "seedContacts" /\ seed[s].await = "select"
    /\ LET contact == DEMO_CONTACTS[seed[s].i]
           existing == SelectFirst(clients, "Email", contact.email)
       IN  \/ /\ ~IsNull(existing)
              /\ seed' = [seed EXCEPT ![s] = SeedAdvance(
                              [@ EXCEPT !.contactIds =
                                            Append(@, [id |-> The(existing)["id"],
                                                       name |-> contact.firstName \o " "
                                                                \o contact.lastName]),
                                        !.contacts.skipped = @ + 1],
                              DEMO_CONTACTS, "seedProjects")]
           \/ /\ IsNull(existing)
              /\ seed' = [seed EXCEPT ![s].await = "create"]
           \/ /\ SeedFaults < MaxSeedFaults
              /\ seed' = [seed EXCEPT ![s] = SeedAdvance([@ EXCEPT !.faults = @ + 1],
                                                         DEMO_CONTACTS, "seedProjects")]
    /\ UNCHANGED <<cfg, hubspot, projects, clients, companies, req, inv, hist, ghost>>

\* seedContacts, second await of a loop turn: the contact is created, linked
\* to companyIds[contact.companyIndex] when that position holds a record
SeedContactCreate(s) ==
    /\ seed[s].pc = "seedContacts" /\ seed[s].await = "create"
    /\ LET contact == DEMO_CONTACTS[seed[s].i]
           companyId == IdAt(seed[s].companyIds, contact.companyIndex)
           fields == << <<"First Name", contact.firstName>>,
                        <<"Last Name", contact.lastName>>,
                        <<"Email", contact.email>>,
                        <<"Phone", contact.phone>>,
                        <<"Role / Title", contact.title>> >>
                     \o (IF companyId # NoId THEN << <<"Company", <<companyId>> >> >> ELSE <<>>)
       IN  \/ /\ clients' = CreateRow(clients, EmptyClientRow, fields)
              /\ seed' = [seed EXCEPT ![s] = SeedAdvance(
                              [@ EXCEPT !.contactIds =
                                            Append(@, [id |-> Len(clients) + 1,
                                                       name |-> contact.firstName \o " "
                                                                \o contact.lastName]),
                                        !.contacts.created = @ + 1],
                              DEMO_CONTACTS, "seedProjects")]
           \/ /\ SeedFaults < MaxSeedFaults
              /\ seed' = [seed EXCEPT ![s] = SeedAdvance([@ EXCEPT !.faults = @ + 1],
                                                         DEMO_CONTACTS, "seedProjects")]
              /\ UNCHANGED clients
    /\ UNCHANGED <<cfg, hubspot, projects, companies, req, inv, hist, ghost>>

\* seedProjects, first await of a loop turn: the project is looked up by name
SeedProjectSelect(s) ==
    /\ seed[s].pc = "seedProjects" /\ seed[s].await = "select"
    /\ LET project == DEMO_PROJECTS[seed[s].i]
           existing == SelectFirst(projects, "Project Name", project.name)
       IN  \/ /\ ~IsNull(existing)
              /\ seed' = [seed EXCEPT ![s] = SeedAdvance(
                              [@ EXCEPT !.projects.skipped = @ + 1], DEMO_PROJECTS, "done")]
           \/ /\ IsNull(existing)
              /\ seed' = [seed EXCEPT ![s].await = "create"]
           \/ /\ SeedFaults < MaxSeedFaults
              /\ seed' = [seed EXCEPT ![s] = SeedAdvance([@ EXCEPT !.faults = @ + 1],
                                                         DEMO_PROJECTS, "done")]
    /\ UNCHANGED <<cfg, hubspot, projects, clients, companies, req, inv, hist, ghost>>

\* seedProjects, second await of a loop turn: the project is created, linked
\* to contactIds[project.contactIndex] when that position holds a record
SeedProjectCreate(s) ==
    /\ seed[s].pc = "seedProjects" /\ seed[s].await = "create"
    /\ LET project == DEMO_PROJECTS[seed[s].i]
           contactId == IdAt(seed[s].contactIds, project.contactIndex)
           fields == << <<"Project Name", project.name>>,
                        <<"Start Date", project.startDate>>,
                        <<"Description", "Demo project: " \o project.name>> >>
                     \o (IF contactId # NoId THEN << <<"Contacts", <<contactId>> >> >> ELSE <<>>)
       IN  \/ /\ projects' = CreateRow(projects, EmptyProjectRow, fields)
              /\ seed' = [seed EXCEPT ![s] = SeedAdvance(
                              [@ EXCEPT !.projects.created = @ + 1], DEMO_PROJECTS, "done")]
           \/ /\ SeedFaults < MaxSeedFaults
              /\ seed' = [seed EXCEPT ![s] = SeedAdvance([@ EXCEPT !.faults = @ + 1],
                                                         DEMO_PROJECTS, "done")]
              /\ UNCHANGED projects
    /\ UNCHANGED <<cfg, hubspot, clients, companies, req, inv, hist, ghost>>

DealIds == { ToString(n) : n \in DealObjectIds }

InitWith(configs, concurrent) ==
    /\ cfg \in configs
    /\ hubspot \in InitialHubSpot(concurrent)
    /\ projects = <<>>
    /\ clients = <<>>
    /\ companies = <<>>
    /\ req = [p \in ProcIds |-> IdleReq]
    /\ inv = [p \in ProcIds |-> IdleInv]
    /\ hist = [d \in DealIds |-> Null]
    /\ ghost = [syncs |-> 0, overlapped |-> {}, faults |-> 0]
    /\ seed = [s \in 1..MaxSeedings |-> IdleSeed]

Init == InitWith(Configs, FALSE)

\* the awaited calls of a running invocation of syncDealToProject
SyncStep(p, I, J, concurrent) ==
    \/ GetDealById(p, I, J, concurrent)
    \/ ReadContactAssociations(p, I, J, concurrent)
    \/ GetContactById(p, I, J)
    \/ ReadCompanyAssociations(p, I, J, concurrent)
    \/ GetCompanyById(p, I, J)
    \/ FindCompanyByHubSpotId(p, I, J)
    \/ UpdateCompany(p, I, J)
    \/ CreateCompany(p, I, J)
    \/ GetContactDetails(p, I, J)
    \/ FindClientByHubSpotContactId(p, I, J)
    \/ UpdateClient(p, I, J)
    \/ CreateClient(p, I, J)
    \/ LinkContactToCompany(p, I, J)
    \/ FindProjectByHubSpotDealId(p, I, J)
    \/ LinkProjectToClient(p, I, J)
    \/ LinkProjectToCompany(p, I, J)
    \/ UpdateProject(p, I, J)
    \/ CreateProject(p, I, J)

\* no other handler is serving a request
Quiet(p) == \A q \in ProcIds \ {p} : req[q].pc = "idle"

\* a webhook request that arrives when no request is being served
SerialWebhookRequest(p) == Quiet(p) /\ WebhookRequest(p, WebhookRequests)

\* a manual trigger that arrives when no request is being served
SerialManualTrigger(p) == Quiet(p) /\ ManualTrigger(p, DealObjectIds)

\* Requests arrive one after the other: at-least-once redelivery, retries
\* and manual triggers, each served before the next arrives.
Next ==
    \E p \in ProcIds :
        \/ SerialWebhookRequest(p)
        \/ SerialManualTrigger(p)
        \/ GetDealById(p, inv, inv', FALSE)
        \/ ReadContactAssociations(p, inv, inv', FALSE)
        \/ GetContactById(p, inv, inv')
        \/ ReadCompanyAssociations(p, inv, inv', FALSE)
        \/ GetCompanyById(p, inv, inv')
        \/ FindCompanyByHubSpotId(p, inv, inv')
        \/ UpdateCompany(p, inv, inv')
        \/ CreateCompany(p, inv, inv')
        \/ GetContactDetails(p, inv, inv')
        \/ FindClientByHubSpotContactId(p, inv, inv')
        \/ UpdateClient(p, inv, inv')
        \/ CreateClient(p, inv, inv')
        \/ LinkContactToCompany(p, inv, inv')
        \/ FindProjectByHubSpotDealId(p, inv, inv')
        \/ LinkProjectToClient(p, inv, inv')
        \/ LinkProjectToCompany(p, inv, inv')
        \/ UpdateProject(p, inv, inv')
        \/ CreateProject(p, inv, inv')
        \/ Complete(p)
        \/ Close(p)

Spec == Init /\ [][Next]_vars

\* Requests arrive at any time and are served concurrently, interleaved at
\* the await points.
NextConcurrent ==
    \E p \in ProcIds :
        \/ WebhookRequest(p, ConcurrentWebhookRequests)
        \/ ManualTrigger(p, ConcurrentDealObjectIds)
        \/ GetDealById(p, inv, inv', TRUE)
        \/ ReadContactAssociations(p, inv, inv', TRUE)
        \/ GetContactById(p, inv, inv')
        \/ ReadCompanyAssociations(p, inv, inv', TRUE)
        \/ GetCompanyById(p, inv, inv')
        \/ FindCompanyByHubSpotId(p, inv, inv')
        \/ UpdateCompany(p, inv, inv')
        \/ CreateCompany(p, inv, inv')
        \/ GetContactDetails(p, inv, inv')
        \/ FindClientByHubSpotContactId(p, inv, inv')
        \/ UpdateClient(p, inv, inv')
        \/ CreateClient(p, inv, inv')
        \/ LinkContactToCompany(p, inv, inv')
        \/ FindProjectByHubSpotDealId(p, inv, inv')
        \/ LinkProjectToClient(p, inv, inv')
        \/ LinkProjectToCompany(p, inv, inv')
        \/ UpdateProject(p, inv, inv')
        \/ CreateProject(p, inv, inv')
        \/ Complete(p)
        \/ Close(p)

\* The configurations tried when requests are served concurrently
ConcurrentConfigs ==
    { c \in Configs : /\ c.enableUpdates
                      /\ c.hubspotSecret = "s3cret"
                      /\ c.syncableFields = SyncableFieldsShipped }

InitConcurrent == InitWith(ConcurrentConfigs, TRUE)

SpecConcurrent == InitConcurrent /\ [][NextConcurrent]_vars

\* The seedings start on an empty base
InitSeed ==
    InitWith({ c \in Configs : /\ c.hubspotSecret = "s3cret"
                               /\ "syncableCompanyFields" \notin DOMAIN c }, TRUE)

\* the awaited requests of a running seedDemoData call
SeedStep(s) ==
    \/ SeedCompanySelect(s)
    \/ SeedCompanyCreate(s)
    \/ SeedContactSelect(s)
    \/ SeedContactCreate(s)
    \/ SeedProjectSelect(s)
    \/ SeedProjectCreate(s)

\* POST /api/seed/demo, one request after the other: a seeding starts when
\* the seedings before it have responded
NextSeed ==
    \E s \in 1..MaxSeedings :
        \/ (\A t \in 1..(s - 1) : seed[t].pc = "done") /\ SeedDemoData(s)
        \/ SeedStep(s)

\* POST /api/seed/demo, requests in flight together: their awaited requests
\* are served in any order
NextSeedConcurrent ==
    \E s \in 1..MaxSeedings :
        \/ (\A t \in 1..(s - 1) : seed[t].pc # "idle") /\ SeedDemoData(s)
        \/ SeedStep(s)

SpecSeed == InitSeed /\ [][NextSeed]_vars

SpecSeedConcurrent == InitSeed /\ [][NextSeedConcurrent]_vars

-----------------------------------------------------------------------------
(* Properties *)

\* syncDealToProject of handler p has returned and its caller has not yet
\* taken the result
Returned(p) == inv[p].pc = "return"

\* how often x occurs in the sequence
CountOf(seq, x) == Cardinality({ i \in 1..Len(seq) : seq[i] = x })

\* the Project rows that carry the Deal id
ProjectRowsOf(dealId) ==
    { i \in 1..Len(projects) : projects[i]["HubSpot Deal ID"] = dealId }

AtMostOneProjectPerDeal == \A d \in DealIds : Cardinality(ProjectRowsOf(d)) <= 1

\* the previous completed sync of the Deal id that handler p is syncing
Previous(p) == The(hist[inv[p].hubspotDealId])

\* handler p has synced again the Deal that the previous sync of the same
\* id created a Project for: same source data, no overlap with another sync
\* of the id, and a project lookup that was answered from the store
SecondSyncOfCreated(p) ==
    /\ Returned(p)
    /\ ~IsNull(inv[p].deal)
    /\ ~IsNull(hist[inv[p].hubspotDealId])
    /\ Previous(p).action = "created"
    /\ Previous(p).deal = inv[p].deal
    /\ ~Previous(p).overlapped
    /\ ~inv[p].overlapped
    /\ "findProjectByHubSpotDealId" \notin inv[p].failed

\* C1 (idempotence of syncDealToProject): with updates enabled, the sync
\* that follows a `created` sync of the same unchanged Deal returns
\* `skipped` with message 'No syncable fields changed' and does not call
\* createProject again.
C1_Idempotence ==
    \A p \in ProcIds :
        SecondSyncOfCreated(p) /\ cfg.enableUpdates
        => /\ The(inv[p].result).action = "skipped"
           /\ The(inv[p].result).message = "No syncable fields changed"
           /\ CountOf(inv[p].calls, "createProject") = 0

\* C2 (safety under redelivery): as long as no two syncs of one Deal id
\* have overlapped, the store holds at most one Project row per Deal id.
C2_OneProjectPerDealSerial ==
    ghost.overlapped = {} => AtMostOneProjectPerDeal

\* C3 (one Project per Deal under concurrency): in every reachable state in
\* which no store or gateway call has failed, overlapping syncs included,
\* the store holds at most one Project row per Deal id.
C3_OneProjectPerDealConcurrent ==
    ghost.faults = 0 => AtMostOneProjectPerDeal

\* the webhook route has answered a batch of at least one event
BatchResponded(p) == req[p].pc = "responded" /\ req[p].batch

\* the Deal ids of the events of the batch handler p has served
BatchDealIds(p) ==
    { ToString(req[p].events[i].objectId) : i \in 1..Len(req[p].events) }

\* the Deal ids of the results, in result order
ResultDealIds(p) == [i \in 1..Len(req[p].results) |-> req[p].results[i].dealId]

\* C4 (batch dedup): when processBatchWebhook has returned, its result list
\* holds exactly one SyncResult per distinct objectId of the payload list,
\* and getDealWithAssociations was called exactly once per distinct
\* objectId, however many payloads carried it.
C4_BatchDedup ==
    \A p \in ProcIds :
        BatchResponded(p)
        => /\ Len(req[p].results) = Cardinality(BatchDealIds(p))
           /\ Len(req[p].fetched) = Cardinality(BatchDealIds(p))
           /\ \A d \in BatchDealIds(p) :
                /\ CountOf(ResultDealIds(p), d) = 1
                /\ CountOf(req[p].fetched, d) = 1

\* a batch with more payloads than distinct objectIds has been answered
C4_Witness ==
    \E p \in ProcIds :
        /\ BatchResponded(p)
        /\ req[p].redundant
        /\ Len(req[p].results) = 1

\* handler p is syncing a Deal that had no Project row when the sync began
NoProjectBefore(p) == ~IsNull(inv[p].deal) /\ ~inv[p].hadProject

\* C5 (creation gating): when the Deal has no Project row and its stage
\* code, lower-cased, is not in projectCreationStages, the sync never
\* reaches createProject and returns `skipped`, whatever the Deal's other
\* fields and associations are.
C5_CreationGating ==
    \A p \in ProcIds :
        NoProjectBefore(p)
          /\ ToLowerCase(The(inv[p].deal).stageId) \notin cfg.projectCreationStages
        => /\ inv[p].pc # "createProject"
           /\ CountOf(inv[p].calls, "createProject") = 0
           /\ Returned(p) => The(inv[p].result).action = "skipped"

\* a Deal outside the trigger set, with contact or company, was skipped
C5_Witness ==
    \E p \in ProcIds :
        /\ Returned(p)
        /\ NoProjectBefore(p)
        /\ ToLowerCase(The(inv[p].deal).stageId) \notin cfg.projectCreationStages
        /\ Len(The(inv[p].deal).contacts) > 0
        /\ The(inv[p].result).action = "skipped"
        /\ The(inv[p].result).projectId = NoId

\* C5 as worded, on the stage code as the source system delivers it: when
\* the Deal has no Project row and its native stage code is not in
\* projectCreationStages, the sync never reaches createProject.
C5_NativeStageCode ==
    \A p \in ProcIds :
        NoProjectBefore(p)
          /\ The(inv[p].deal).stageId \notin cfg.projectCreationStages
        => /\ inv[p].pc # "createProject"
           /\ CountOf(inv[p].calls, "createProject") = 0

\* C6 (syncDealToProject never raises): every invocation that ends, ends
\* with a SyncResult for its Deal id whose action is created, updated,
\* skipped or error; and an exception that reaches the top-level catch ends
\* the invocation with action `error`, success false and the exception's
\* message.
C6_NeverRaises ==
    \A p \in ProcIds :
        /\ Returned(p)
           => /\ ~IsNull(inv[p].result)
              /\ The(inv[p].result).action \in {"created", "updated", "skipped", "error"}
              /\ The(inv[p].result).dealId = inv[p].hubspotDealId
        /\ inv[p].thrown # Undefined
           => /\ Returned(p)
              /\ The(inv[p].result).action = "error"
              /\ ~The(inv[p].result).success
              /\ The(inv[p].result).message = inv[p].thrown

\* a failed createProject or updateProject has been turned into a result
C6_Witness ==
    \E p \in ProcIds :
        /\ Returned(p)
        /\ inv[p].thrown # Undefined
        /\ CountOf(inv[p].calls, "createProject") + CountOf(inv[p].calls, "updateProject") = 1
        /\ The(inv[p].result).action = "error"

\* C7 (a batch never aborts early): while processBatchWebhook runs, the
\* results pushed, the id being synced and the ids still to come add up to
\* the distinct objectIds of the batch, whatever the earlier results were;
\* so the answered result list has one entry per distinct objectId.
C7_BatchNeverAborts ==
    \A p \in ProcIds :
        /\ req[p].pc = "processBatchWebhook"
           => /\ Len(req[p].results) + 1 + Len(req[p].uniqueDeals)
                    = Cardinality(BatchDealIds(p))
              /\ inv[p].pc # "idle"
        /\ BatchResponded(p)
           => Len(req[p].results) = Cardinality(BatchDealIds(p))

\* a batch whose first id ended in `error` has synced its second id
C7_Witness ==
    \E p \in ProcIds :
        /\ BatchResponded(p)
        /\ Len(req[p].results) = 2
        /\ req[p].results[1].action = "error"
        /\ req[p].results[2].action = "created"

CompanyCalls == {"findCompanyByHubSpotId", "createCompany", "updateCompany"}
\* the calls of syncContactToClient: the contact fetch, the client lookup
\* and the client writes
ContactCalls ==
    {"getContactDetails", "findClientByHubSpotContactId", "createClient", "updateClient"}
ProjectCalls == {"findProjectByHubSpotDealId", "createProject", "updateProject"}

\* a company call of handler p has failed for a Deal with a company, no
\* Project row and a creation-trigger stage, and no project call has failed
CompanyTierFailedOnCreatePath(p) ==
    /\ Returned(p)
    /\ NoProjectBefore(p)
    /\ ~IsNull(The(inv[p].deal).company)
    /\ inv[p].failed \cap CompanyCalls # {}
    /\ inv[p].failed \cap ProjectCalls = {}
    /\ ToLowerCase(The(inv[p].deal).stageId) \in cfg.projectCreationStages

\* C8 (Tier 1 fault isolation): when the company lookup, create or update
\* fails for a Deal with a company, no Project row and a creation-trigger
\* stage, the sync still ends `created` (createProject itself succeeding),
\* with no companyId in the result and no company link on the new row.
C8_CompanyTierIsolated ==
    \A p \in ProcIds :
        CompanyTierFailedOnCreatePath(p)
        => /\ The(inv[p].result).action = "created"
           /\ The(inv[p].result).companyId = NoId
           /\ LinkedId(projects[The(inv[p].result).projectId]["Company"]) = NoId

\* a sync whose company lookup failed has created the Project
C8_Witness ==
    \E p \in ProcIds :
        /\ CompanyTierFailedOnCreatePath(p)
        /\ "findCompanyByHubSpotId" \in inv[p].failed
        /\ The(inv[p].result).action = "created"
        /\ The(inv[p].result).projectId \in ProjectRowsOf(inv[p].hubspotDealId)

\* a contact call of handler p has failed
ContactTierFailed(p) ==
    /\ Returned(p)
    /\ ~IsNull(inv[p].deal)
    /\ inv[p].failed \cap ContactCalls # {}

\* C9 (Tier 2 fault isolation): when the contact sync fails (contact not
\* found in the source, or the client lookup, create or update failing),
\* Tier 3 still runs and, unless a project call fails itself, ends created,
\* updated or skipped, with no clientId in the result and no contact link
\* on a created row; and a Deal without contacts is synced without any
\* contact call.
C9_ContactTierIsolated ==
    \A p \in ProcIds :
        /\ ContactTierFailed(p)
           => /\ CountOf(inv[p].calls, "findProjectByHubSpotDealId") = 1
              /\ The(inv[p].result).clientId = NoId
              /\ inv[p].failed \cap ProjectCalls = {}
                 => The(inv[p].result).action \in {"created", "updated", "skipped"}
              /\ The(inv[p].result).action = "created"
                 => LinkedId(projects[The(inv[p].result).projectId]["Contacts"]) = NoId
        /\ Returned(p) /\ ~IsNull(inv[p].deal) /\ Len(The(inv[p].deal).contacts) = 0
           => /\ CountOf(inv[p].calls, "createClient") = 0
              /\ CountOf(inv[p].calls, "getContactDetails") = 0
              /\ IsNull(inv[p].contactResult)

\* the tier a call belongs to
TierOf(call) ==
    CASE call = "getDealWithAssociations" -> 0
      [] call \in {"findCompanyByHubSpotId", "createCompany", "updateCompany"} -> 1
      [] call \in {"getContactDetails", "findClientByHubSpotContactId", "createClient",
                   "updateClient", "linkContactToCompany"} -> 2
      [] OTHER -> 3

\* C10 (tier ordering): within one invocation the tier of the calls never
\* decreases from one call to the next, so every call on the Company record
\* is issued before any call on the Contact record, and every Company and
\* Contact call before the first call on the Project record.
C10_TierOrder ==
    \A p \in ProcIds :
        \A i \in 1..Len(inv[p].calls) - 1 :
            TierOf(inv[p].calls[i]) <= TierOf(inv[p].calls[i + 1])

\* one invocation has written a Company, a Contact and a Project
C10_Witness ==
    \E p \in ProcIds :
        /\ Returned(p)
        /\ CountOf(inv[p].calls, "createCompany") = 1
        /\ CountOf(inv[p].calls, "createClient") = 1
        /\ CountOf(inv[p].calls, "linkContactToCompany") = 1
        /\ CountOf(inv[p].calls, "createProject") = 1

\* handler p is about to call updateProject(existingProject.id, updates)
UpdatingProject(p) == inv[p].pc = "updateProject"

\* the set of keys of a partial-update object
KeySet(obj) == { obj[i][1] : i \in 1..Len(obj) }

\* the existing Project equals the Deal in every syncable field but the
\* amount: name, start date and description agree, the amount does not
EqualButAmount(deal, existingProject) ==
    /\ "amount" \in cfg.syncableFields
    /\ Trim(deal.name) = existingProject.name
    /\ BeforeT(deal.closeDate) = existingProject.startDate
    /\ deal.description = existingProject.description
    /\ deal.amount # existingProject.budget

\* C11 (diff minimality of the project update): with 'amount' syncable and
\* an existing Project equal to the Deal in every syncable field except the
\* amount, the object passed to updateProject has the key budget with the
\* Deal's amount, may have the key status, and that only when the status
\* derived from the stage differs from the stored one, and has no other key.
C11_DiffMinimal ==
    \A p \in ProcIds :
        UpdatingProject(p)
          /\ EqualButAmount(The(inv[p].deal), The(inv[p].existing))
        => /\ KeySet(inv[p].updates) \in {{"budget"}, {"budget", "status"}}
           /\ Len(inv[p].updates) = Cardinality(KeySet(inv[p].updates))
           /\ Get(inv[p].updates, "budget") = The(inv[p].deal).amount
           /\ HasKey(inv[p].updates, "status")
              => StatusOfStage(ToLowerCase(The(inv[p].deal).stageId))
                    # The(inv[p].existing).status

\* updateProject is about to be called with the budget alone
C11_Witness ==
    \E p \in ProcIds :
        /\ UpdatingProject(p)
        /\ EqualButAmount(The(inv[p].deal), The(inv[p].existing))
        /\ Keys(inv[p].updates) = <<"budget">>

\* a step keeps the external id of every Project row there is
ExternalIdKept ==
    /\ Len(projects') >= Len(projects)
    /\ \A i \in 1..Len(projects) :
          projects'[i]["HubSpot Deal ID"] = projects[i]["HubSpot Deal ID"]

\* a step that adds a Project row is the createProject of a handler, and
\* the row carries the Deal id that handler is syncing
ExternalIdSetAtCreation ==
    Len(projects') > Len(projects)
    => /\ Len(projects') = Len(projects) + 1
       /\ \E p \in ProcIds :
            /\ inv[p].pc = "createProject"
            /\ projects'[Len(projects')]["HubSpot Deal ID"] = inv[p].hubspotDealId

\* C12 (the external id is written once): the HubSpot Deal ID of a Project
\* row is set by the createProject that adds the row, to the Deal id being
\* synced, and no later step (update, link, another create) changes it.
C12_ExternalIdWrittenOnce == [][ExternalIdKept /\ ExternalIdSetAtCreation]_vars

\* a Project has been updated by a sync and carries the Deal's id
C12_Witness ==
    \E p \in ProcIds :
        /\ Returned(p)
        /\ The(inv[p].result).action = "updated"
        /\ CountOf(inv[p].calls, "linkProjectToClient") = 1
        /\ projects[The(inv[p].result).projectId]["HubSpot Deal ID"] = inv[p].hubspotDealId

\* a step leaves the link cell `field` of every row of the table non-empty
\* where it was non-empty
LinkKept(table, tableAfter, field) ==
    \A i \in 1..Len(table) :
        table[i][field] # <<>> => i <= Len(tableAfter) /\ tableAfter[i][field] # <<>>

\* C13 (links are monotonically populated): a Project's contact link, a
\* Project's company link and a Contact's company link, once non-empty, are
\* left non-empty by every step of every later sync, whatever the Deal's
\* associations then are and whichever tier fails.
C13_LinksNeverEmptied ==
    [][/\ LinkKept(projects, projects', "Contacts")
       /\ LinkKept(projects, projects', "Company")
       /\ LinkKept(clients, clients', "Company")]_vars

\* a later sync of a Deal that has lost its contact has ended, and the
\* Project still has its contact link
C13_Witness ==
    \E p \in ProcIds :
        /\ Returned(p)
        /\ inv[p].hadProject
        /\ ~IsNull(inv[p].deal)
        /\ Len(The(inv[p].deal).contacts) = 0
        /\ The(inv[p].result).action \in {"updated", "skipped"}
        /\ The(inv[p].result).projectId # NoId
        /\ projects[The(inv[p].result).projectId]["Contacts"] # <<>>

\* C14 (update path once created): with updates enabled, a sync of a Deal
\* that had a Project row when the sync began never calls createProject and,
\* unless updateProject itself throws, returns `updated` or `skipped`,
\* whatever the Deal's stage is.
C14_UpdatePathOnceCreated ==
    \A p \in ProcIds :
        inv[p].hadProject /\ cfg.enableUpdates
        => /\ inv[p].pc # "createProject"
           /\ CountOf(inv[p].calls, "createProject") = 0
           /\ Returned(p) /\ ~IsNull(inv[p].deal) /\ "updateProject" \notin inv[p].failed
              => The(inv[p].result).action \in {"updated", "skipped"}

\* the write calls on an existing Project row
ProjectWriteCalls == {"linkProjectToClient", "linkProjectToCompany", "updateProject"}

\* the project lookup of handler p has found the Project the Deal had
FoundProject(p) ==
    /\ inv[p].hadProject
    /\ CountOf(inv[p].calls, "findProjectByHubSpotDealId") = 1
    /\ "findProjectByHubSpotDealId" \notin inv[p].failed

\* C15 (updates disabled): with enableUpdates off, a sync whose lookup has
\* found the Deal's Project returns `skipped` with message 'Updates disabled
\* in config' straight after the lookup, and issues no update and no link
\* call on the Project, whatever the Deal's fields are.
C15_UpdatesDisabled ==
    \A p \in ProcIds :
        ~cfg.enableUpdates /\ FoundProject(p)
        => /\ Returned(p)
           /\ The(inv[p].result).action = "skipped"
           /\ The(inv[p].result).success
           /\ The(inv[p].result).message = "Updates disabled in config"
           /\ inv[p].calls[Len(inv[p].calls)] = "findProjectByHubSpotDealId"
           /\ \A c \in ProjectWriteCalls \cup {"createProject"} :
                CountOf(inv[p].calls, c) = 0

\* with updates disabled, the sync of an edited Deal whose contact was
\* synced has been skipped
C15_Witness ==
    \E p \in ProcIds :
        /\ ~cfg.enableUpdates
        /\ FoundProject(p)
        /\ Returned(p)
        /\ The(inv[p].result).message = "Updates disabled in config"
        /\ The(inv[p].result).clientId # NoId
        /\ Previous(p).deal # inv[p].deal

\* handler p is on the update path, between the lookup that found the
\* Project and the return
OnUpdatePath(p) ==
    inv[p].pc \in {"linkProjectToClient", "linkProjectToCompany", "updateProject"}

\* the status the stage-to-status table gives for the Deal's stage differs
\* from the status of the Project
StatusDiffers(deal, existingProject) ==
    /\ Truthy(StatusOfStage(ToLowerCase(deal.stageId)))
    /\ StatusOfStage(ToLowerCase(deal.stageId)) # existingProject.status

\* C16 (status is always re-evaluated): on the update path, whenever the
\* status the table gives for the Deal's stage differs from the stored
\* status, the update object has the key status with the table's status,
\* whatever the syncable-field list is; and the sync does not end 'No
\* syncable fields changed' while the two differ.
C16_StatusReevaluated ==
    \A p \in ProcIds :
        /\ OnUpdatePath(p) /\ StatusDiffers(The(inv[p].deal), The(inv[p].existing))
           => /\ HasKey(inv[p].updates, "status")
              /\ Get(inv[p].updates, "status")
                    = StatusOfStage(ToLowerCase(The(inv[p].deal).stageId))
        /\ Returned(p) /\ FoundProject(p)
             /\ The(inv[p].result).message = "No syncable fields changed"
           => ~StatusDiffers(The(inv[p].deal),
                             ProjectOfRow(projects[The(inv[p].result).projectId]))

\* updateProject is about to be called with the status alone
C16_Witness ==
    \E p \in ProcIds :
        /\ UpdatingProject(p)
        /\ StatusDiffers(The(inv[p].deal), The(inv[p].existing))
        /\ Keys(inv[p].updates) = <<"status">>

\* the upstream fetch of handler p has reported the Deal as not found
DealMissing(p) ==
    /\ CountOf(inv[p].calls, "getDealWithAssociations") = 1
    /\ IsNull(inv[p].deal)

\* C17 (Deal not found upstream): when getDealWithAssociations answers
\* null, the sync returns at once with success false, action `error` and
\* the message 'Deal <id> not found in HubSpot', having made no call on
\* the target store: the fetch is its only call.
C17_DealNotFound ==
    \A p \in ProcIds :
        DealMissing(p)
        => /\ Returned(p)
           /\ ~The(inv[p].result).success
           /\ The(inv[p].result).action = "error"
           /\ The(inv[p].result).message
                = "Deal " \o inv[p].hubspotDealId \o " not found in HubSpot"
           /\ The(inv[p].result).projectId = NoId
           /\ inv[p].calls = <<"getDealWithAssociations">>

\* a sync of a Deal that has a Project in the store got no Deal upstream
C17_Witness ==
    \E p \in ProcIds :
        /\ DealMissing(p)
        /\ Returned(p)
        /\ inv[p].hadProject
        /\ The(inv[p].result).action = "error"

\* the write calls of the three tiers
CompanyWriteCalls == {"createCompany", "updateCompany"}
ContactWriteCalls == {"createClient", "updateClient"}
ProjectRecordWriteCalls == {"createProject", "updateProject"}

\* the messages createProject and updateProject throw with
ProjectWriteFailureMessages ==
    { prefix \o e : prefix \in {"Failed to create project in Airtable: ",
                                "Failed to update project in Airtable: "},
                    e \in AirtableErrors }

\* C18 (a write failure is fatal only in Tier 3): a sync whose createProject
\* or updateProject threw returns `error` with the exception's message; a
\* sync whose company or contact create/update threw returns `error` only
\* if a Project write threw as well, and otherwise ends created, updated or
\* skipped without the link the failed tier would have given.
C18_WriteFailureFatalInTier3 ==
    \A p \in ProcIds :
        /\ inv[p].failed \cap ProjectRecordWriteCalls # {}
           => /\ Returned(p)
              /\ ~The(inv[p].result).success
              /\ The(inv[p].result).action = "error"
              /\ The(inv[p].result).message \in ProjectWriteFailureMessages
              /\ The(inv[p].result).message = inv[p].thrown
        /\ Returned(p) /\ inv[p].failed \cap ProjectRecordWriteCalls = {}
             /\ inv[p].failed \cap (CompanyWriteCalls \cup ContactWriteCalls) # {}
           => /\ The(inv[p].result).action \in {"created", "updated", "skipped"}
              /\ The(inv[p].result).success
              /\ inv[p].failed \cap CompanyWriteCalls # {}
                 => The(inv[p].result).companyId = NoId
              /\ inv[p].failed \cap ContactWriteCalls # {}
                 => The(inv[p].result).clientId = NoId

\* an updateProject that threw has ended the sync in `error`, after the
\* company and the contact had been synced
C18_Witness ==
    \E p \in ProcIds :
        /\ Returned(p)
        /\ "updateProject" \in inv[p].failed
        /\ The(inv[p].result).action = "error"
        /\ ~IsNull(inv[p].companyResult) /\ The(inv[p].companyResult).success
        /\ ~IsNull(inv[p].contactResult) /\ The(inv[p].contactResult).success

\* C19 (a failed project lookup propagates): a sync whose
\* findProjectByHubSpotDealId request failed returns `error` straight away:
\* it reaches neither createProject nor updateProject, so a Deal that has a
\* Project never gets a second one because of a failed lookup.
C19_LookupFailurePropagates ==
    \A p \in ProcIds :
        "findProjectByHubSpotDealId" \in inv[p].failed
        => /\ Returned(p)
           /\ The(inv[p].result).action = "error"
           /\ CountOf(inv[p].calls, "createProject") = 0
           /\ CountOf(inv[p].calls, "updateProject") = 0
           /\ Cardinality(ProjectRowsOf(inv[p].hubspotDealId)) <= 1

\* handler p has created a Project and its caller has not yet taken the result
Created(p) == Returned(p) /\ The(inv[p].result).action = "created"

\* the row handler p has created
CreatedRow(p) == projects[The(inv[p].result).projectId]

\* the target id a tier has produced, NoId when it did not run or failed
ProducedCompanyId(s) ==
    IF ~IsNull(s.companyResult) /\ The(s.companyResult).success
    THEN The(s.companyResult).airtableCompanyId ELSE NoId
ProducedClientId(s) ==
    IF ~IsNull(s.contactResult) /\ The(s.contactResult).success
    THEN The(s.contactResult).clientId ELSE NoId

\* the Project row carries the external id, status, start date and links
\* the create path derives from the Deal and from tiers 1 and 2
CreatedRowDerived(p) ==
    LET deal == The(inv[p].deal)
        row == CreatedRow(p)
    IN  /\ row["HubSpot Deal ID"] = deal.id
        /\ deal.id = inv[p].hubspotDealId
        /\ row["Status"] = OrElse(StatusOfStage(ToLowerCase(deal.stageId)), "Active")
        /\ row["Start Date"] = BeforeT(deal.closeDate)
        /\ LinkedId(row["Contacts"]) = ProducedClientId(inv[p])
        /\ LinkedId(row["Company"]) = ProducedCompanyId(inv[p])

\* C20 (create path content): the Project created for a Deal has the Deal's
\* id as external id, the Deal's name with leading and trailing blanks
\* removed, the status the table gives for the lower-cased stage code (or
\* 'Active' when it gives none), the date portion of the close date as
\* start date, and the contact and company ids tiers 2 and 1 produced, no
\* link where a tier did not run or failed.
C20_CreatePathContent ==
    \A p \in ProcIds :
        Created(p)
        => /\ CreatedRowDerived(p)
           /\ CreatedRow(p)["Project Name"] = Trim(The(inv[p].deal).name)

\* a Project has been created with links to the company and the contact
\* the same sync created
C20_Witness ==
    \E p \in ProcIds :
        /\ Created(p)
        /\ CountOf(inv[p].calls, "createCompany") = 1
        /\ LinkedId(CreatedRow(p)["Company"]) # NoId
        /\ LinkedId(CreatedRow(p)["Contacts"]) # NoId
        /\ CreatedRow(p)["Start Date"] = "2024-12-15"

\* C20 as worded, with the Deal's name taken verbatim: the Project created
\* for a Deal has name = the Deal name.
C20_DealNameVerbatim ==
    \A p \in ProcIds :
        Created(p)
        => /\ CreatedRowDerived(p)
           /\ CreatedRow(p)["Project Name"] = The(inv[p].deal).name

-----------------------------------------------------------------------------
(* Tier 1 and Tier 2: the upsert decision *)

\* the company of the Deal handler p is syncing
CompanyOf(p) == The(The(inv[p].deal).company)

\* the call handler p has issued last
LastCall(p) == inv[p].calls[Len(inv[p].calls)]

\* the upsert decision of syncCompanyToAirtable, as seen in handler p
CompanyUpsertDecision(p) ==
    LET s == inv[p]
        found == findCompanyByHubSpotId(CompanyOf(p).id)
        diff == buildCompanyUpdates(CompanyOf(p), The(found))
        creates == CountOf(s.calls, "createCompany")
        updates == CountOf(s.calls, "updateCompany")
    IN  /\ s.pc = "createCompany" => IsNull(found) /\ creates = 0 /\ updates = 0
        /\ s.pc = "updateCompany"
           => /\ ~IsNull(found) /\ s.existing = found
              /\ diff.thrown = Undefined
              /\ s.updates = diff.value /\ diff.value # <<>>
              /\ creates = 0 /\ updates = 0
        /\ ~IsNull(s.companyResult)
           => LET r == The(s.companyResult)
              IN  /\ r.action \in {"skipped", "updated", "created", "error"}
                  /\ r.action = "skipped"
                     => /\ creates = 0 /\ updates = 0
                        /\ LastCall(p) = "findCompanyByHubSpotId"
                           => /\ ~IsNull(found) /\ diff.thrown = Undefined /\ diff.value = <<>>
                              /\ r.airtableCompanyId = The(found).id
                  /\ r.action = "updated"
                     => /\ creates = 0 /\ updates = 1
                        /\ LastCall(p) = "updateCompany"
                           => r.airtableCompanyId = The(found).id
                  /\ r.action = "created"
                     => /\ creates = 1 /\ updates = 0
                        /\ LastCall(p) = "createCompany"
                           => /\ r.airtableCompanyId = Len(companies)
                              /\ companies[Len(companies)]["HubSpot Company ID"]
                                    = CompanyOf(p).id
                  /\ r.action = "error"
                     => /\ s.failed \cap CompanyCalls # {}
                        /\ creates + updates <= 1

\* the upsert decision of syncContactToClient, as seen in handler p: the
\* record is looked up under the id syncDealToProject passed, and compared
\* with the contact getContactDetails returned; a lookup that failed has
\* been answered with null
ContactUpsertDecision(p) ==
    LET s == inv[p]
        hubspotContactId == The(s.deal).contacts[1].id
        found == findClientByHubSpotContactId(hubspotContactId)
        answered == "findClientByHubSpotContactId" \notin s.failed
        creates == CountOf(s.calls, "createClient")
        updates == CountOf(s.calls, "updateClient")
    IN  /\ s.pc = "createClient"
           => /\ answered => IsNull(found)
              /\ creates = 0 /\ updates = 0
        /\ s.pc = "updateClient"
           => /\ ~IsNull(found) /\ s.existing = found
              /\ s.updates = buildClientUpdates(The(s.contact), The(found))
              /\ s.updates # <<>>
              /\ creates = 0 /\ updates = 0
        /\ ~IsNull(s.contactResult)
           => LET r == The(s.contactResult)
              IN  /\ r.action \in {"skipped", "updated", "created", "error"}
                  /\ r.action = "skipped"
                     => /\ creates = 0 /\ updates = 0
                        /\ LastCall(p) = "findClientByHubSpotContactId"
                           => /\ ~IsNull(found)
                              /\ r.clientId = The(found).id
                  /\ r.action = "updated"
                     => /\ creates = 0 /\ updates = 1
                        /\ LastCall(p) = "updateClient"
                           => r.clientId = The(found).id
                  /\ r.action = "created"
                     => /\ creates = 1 /\ updates = 0
                        /\ LastCall(p) = "createClient"
                           => /\ r.clientId = Len(clients)
                              /\ clients[Len(clients)]["HubSpot Contact ID"]
                                    = hubspotContactId
                  /\ r.action = "error"
                     => /\ s.failed \cap ContactCalls # {}
                        /\ creates + updates <= 1

\* the step of handler p in which findClientByHubSpotContactId is answered
\* from the store: which of the three ways the sync goes is decided by the
\* record found and by the diff between it and the contact
\* getContactDetails returned, and the step writes nothing
ContactLookupDecides(p) ==
    LET s == inv[p]
        t == inv'[p]
        contact == The(s.contact)
        found == findClientByHubSpotContactId(The(s.deal).contacts[1].id)
        diff == buildClientUpdates(contact, The(found))
        skipped == ~IsNull(t.contactResult) /\ The(t.contactResult).action = "skipped"
    IN  (/\ s.pc = "findClientByHubSpotContactId"
         /\ t.pc # s.pc
         /\ "findClientByHubSpotContactId" \notin t.failed)
        => /\ clients' = clients
           /\ t.pc = "createClient" <=> IsNull(found)
           /\ t.pc = "updateClient" <=> (~IsNull(found) /\ diff # <<>>)
           /\ skipped <=> (~IsNull(found) /\ diff = <<>>)
           /\ t.pc = "updateClient" => t.updates = diff /\ t.existing = found
           /\ skipped => The(t.contactResult).clientId = The(found).id

\* C21 (Tier 1 and Tier 2 upsert decision): in syncCompanyToAirtable and
\* syncContactToClient, when the lookup is answered from the store, a record
\* that exists with an empty diff over the syncable fields gets no write and
\* its id is returned with `skipped`; a record that exists with a non-empty
\* diff gets exactly one update, carrying that diff, and no create
\* (`updated`); when no record exists exactly one create and no update is
\* issued (`created`).  The contact's diff is taken between the record and
\* the contact getContactDetails returned.
C21_UpsertDecision ==
    /\ [](\A p \in ProcIds : CompanyUpsertDecision(p) /\ ContactUpsertDecision(p))
    /\ [][\A p \in ProcIds : ContactLookupDecides(p)]_vars

-----------------------------------------------------------------------------
(* processBatchWebhook: order of the results and surviving payload *)

\* C22 (batch result order and surviving payload): processBatchWebhook
\* syncs the distinct objectIds in order of their first appearance in the
\* input, so the i-th result is about the i-th distinct objectId; and each
\* sync is started with the propertyName of the last payload of the input
\* that carries its objectId.
C22_BatchOrderAndPayload ==
    \A p \in ProcIds :
        /\ req[p].pc = "processBatchWebhook"
           => LET k == Len(req[p].results) + 1
              IN  /\ k + Len(req[p].uniqueDeals) = Len(req[p].events)
                  /\ inv[p].hubspotDealId = ToString(req[p].events[k].objectId)
                  /\ inv[p].propertyChanged = req[p].events[k].propertyName
                  /\ \A i \in 1..Len(req[p].uniqueDeals) :
                        req[p].uniqueDeals[i]
                            = <<req[p].events[k + i].objectId, req[p].events[k + i]>>
        /\ req[p].batch
           => /\ \A i \in 1..Len(req[p].results) :
                    req[p].results[i].dealId = ToString(req[p].events[i].objectId)
              /\ req[p].pc = "responded" => Len(req[p].results) = Len(req[p].events)

\* the second sync of a batch is starting, for the deal that appeared
\* second, with the property name of a later event than the deal's first;
\* the batch had a last event about the deal that appeared first
C22_Witness ==
    \E p \in ProcIds :
        /\ req[p].pc = "processBatchWebhook"
        /\ req[p].redundant
        /\ Len(req[p].results) = 1
        /\ Len(req[p].events) = 2
        /\ inv[p].pc = "getDealWithAssociations"
        /\ inv[p].hubspotDealId = "1"
        /\ inv[p].propertyChanged = "amount"
        /\ req[p].results[1].dealId = "2"

-----------------------------------------------------------------------------
(* syncDealToProject: the propertyChanged argument *)

\* the values of the propertyChanged argument
PropertyChangedValues == PropertyNames \cup {Undefined}

\* the invocations, had handler p been started with the argument n
WithPropertyChanged(I, p, n) == [I EXCEPT ![p].propertyChanged = n]

\* C23 (the changed-property name does not alter the engine's behaviour):
\* an invocation started with another propertyChanged argument, or with the
\* property name of another payload of the batch, from the same source
\* state, store and configuration starts in the same state but for the
\* argument; and whatever step the invocation takes (the same answer of the
\* source or of the store, the same write, the same result), the invocation
\* with any other argument takes as well, leaving the same store and
\* differing in the argument only.  So two runs that differ in the argument
\* only issue the same store operations, reach the same final store and
\* return the same result.
C23_PropertyChangedIgnored ==
    [][\A p \in ProcIds : \A n \in PropertyChangedValues :
          /\ (inv'[p].pc = "getDealWithAssociations" /\ inv'[p] # inv[p])
             => WithPropertyChanged(inv', p, n)[p]
                   = StartInv(p, inv'[p].hubspotDealId, n)
          /\ (Running(inv[p]) /\ inv'[p] # inv[p])
             => SyncStep(p, WithPropertyChanged(inv, p, n),
                         WithPropertyChanged(inv', p, n), FALSE)]_vars

\* a sync started for an event about the amount, for a Deal that had a
\* Project, has updated the Project
C23_Witness ==
    \E p \in ProcIds :
        /\ Returned(p)
        /\ inv[p].propertyChanged = "amount"
        /\ inv[p].hadProject
        /\ The(inv[p].result).action = "updated"
        /\ CountOf(inv[p].calls, "updateProject") = 1

-----------------------------------------------------------------------------
(* Link failures *)

LinkCalls == {"linkContactToCompany", "linkProjectToClient", "linkProjectToCompany"}

\* update path, after the link attempts: the sync has returned `skipped`
\* for an empty update object and is about to call updateProject otherwise
AfterLinksOutcome(p) ==
    \/ /\ inv[p].pc = "updateProject"
       /\ inv[p].updates # <<>>
       /\ inv[p].updates = buildProjectUpdates(The(inv[p].deal), The(inv[p].existing))
    \/ /\ Returned(p)
       /\ The(inv[p].result).success
       /\ The(inv[p].result).action = "skipped"
       /\ The(inv[p].result).message = "No syncable fields changed"
       /\ buildProjectUpdates(The(inv[p].deal),
              ProjectOfRow(projects[The(inv[p].result).projectId])) = <<>>

\* C24 (link failures are always swallowed): whether linkContactToCompany,
\* linkProjectToClient or linkProjectToCompany succeeds or throws, the sync
\* goes on to the same next step with the same linked ids and the same
\* update object; a sync in which only link calls failed never ends in
\* `error`, and reports the contact and company ids tiers 1 and 2 produced.
C24_LinkFailuresSwallowed ==
    \A p \in ProcIds :
        /\ inv[p].calls # <<>> /\ LastCall(p) \in LinkCalls
           => /\ inv[p].thrown = Undefined
              /\ inv[p].linkedClientId = ProducedClientId(inv[p])
              /\ inv[p].linkedCompanyId = ProducedCompanyId(inv[p])
              /\ LastCall(p) = "linkContactToCompany"
                 => inv[p].pc = "findProjectByHubSpotDealId"
              /\ LastCall(p) = "linkProjectToClient"
                 => IF inv[p].linkedCompanyId # NoId
                    THEN inv[p].pc = "linkProjectToCompany"
                    ELSE AfterLinksOutcome(p)
              /\ LastCall(p) = "linkProjectToCompany" => AfterLinksOutcome(p)
        /\ Returned(p) /\ inv[p].failed # {} /\ inv[p].failed \subseteq LinkCalls
           => /\ The(inv[p].result).success
              /\ The(inv[p].result).action \in {"created", "updated", "skipped"}
              /\ The(inv[p].result).clientId = ProducedClientId(inv[p])
              /\ The(inv[p].result).companyId = ProducedCompanyId(inv[p])

\* a sync whose linkProjectToClient threw has gone on to the field updates
\* of the Project and reports the contact's client id
C24_Witness ==
    \E p \in ProcIds :
        /\ Returned(p)
        /\ "linkProjectToClient" \in inv[p].failed
        /\ The(inv[p].result).success
        /\ The(inv[p].result).action \in {"updated", "skipped"}
        /\ inv[p].hadProject
        /\ The(inv[p].result).clientId # NoId
        /\ projects[The(inv[p].result).projectId]["Contacts"] = <<>>

-----------------------------------------------------------------------------
(* The webhook route: signature verification *)

\* handler p is serving, or has answered, a webhook notification
ServingWebhook(p) ==
    \/ req[p].pc = "processBatchWebhook"
    \/ req[p].pc = "responded" /\ (req[p].batch \/ req[p].results = <<>>)

\* nothing of the sync engine has run for the request of handler p
EngineNotInvoked(p) ==
    /\ ~req[p].batch
    /\ req[p].uniqueDeals = <<>>
    /\ req[p].fetched = <<>>
    /\ req[p].results = <<>>
    /\ inv[p] = IdleInv

\* C25 (signature verification): with a webhook secret configured, a
\* notification whose signature header is missing or is not the HMAC of
\* method, url, body and timestamp under the secret is answered 401, and
\* processBatchWebhook is not invoked for it: no source fetch and no store
\* operation is made on its behalf.
C25_BadSignatureRejected ==
    \A p \in ProcIds :
        cfg.hubspotSecret # "" /\ ServingWebhook(p) /\ ~req[p].authentic
        => /\ req[p].pc = "responded"
           /\ req[p].status = 401
           /\ EngineNotInvoked(p)

\* a notification with a fresh timestamp and a signature made with another
\* key has been answered 401
C25_Witness ==
    \E p \in ProcIds :
        /\ cfg.hubspotSecret # ""
        /\ req[p].status = 401
        /\ ~req[p].authentic
        /\ The(req[p].rejected).signedWith = Some("forged")
        /\ The(req[p].rejected).timestamp = Some(The(req[p].rejected).now)
        /\ EngineNotInvoked(p)

\* C26 (no secret configured): when config.webhooks.hubspotSecret is empty,
\* every inbound notification is allowed: none is answered 401, and its
\* events, if it has any, are passed on to processBatchWebhook.
C26_NoSecretAllowsAll ==
    \A p \in ProcIds :
        cfg.hubspotSecret = "" /\ ServingWebhook(p)
        => /\ req[p].status # 401
           /\ req[p].batch \/ req[p].pc = "responded"

-----------------------------------------------------------------------------
(* Target store: links of a Project *)

\* C27 (at most one contact and one company per Project): in every
\* reachable state of the store each Project row is linked to at most one
\* Contact row and at most one Company row, whatever creates and (re)links
\* the syncs have made.
C27_AtMostOneLink ==
    \A i \in 1..Len(projects) :
        /\ Len(projects[i]["Contacts"]) <= 1
        /\ Len(projects[i]["Company"]) <= 1

\* a Project that was created with a link to one Contact row has been
\* linked again, by a later sync whose contact tier produced another row,
\* and is now linked to that row alone
C27_Witness ==
    \E p \in ProcIds :
        /\ Returned(p)
        /\ inv[p].hadProject
        /\ CountOf(inv[p].calls, "linkProjectToClient") = 1
        /\ "linkProjectToClient" \notin inv[p].failed
        /\ The(inv[p].result).projectId # NoId
        /\ The(inv[p].result).clientId = 2
        /\ ~IsNull(hist[inv[p].hubspotDealId])
        /\ Len(The(hist[inv[p].hubspotDealId]).deal) = 1
        /\ Len(The(The(hist[inv[p].hubspotDealId]).deal).contacts) = 1
        /\ projects[The(inv[p].result).projectId]["Contacts"] = <<2>>

-----------------------------------------------------------------------------
(* Target store: frame of the updates *)

\* the store field each canonical field of a Project update is written to
ProjectFieldOf ==
    [k \in {"name", "startDate", "description", "status"} |->
        CASE k = "name" -> "Project Name"
          [] k = "startDate" -> "Start Date"
          [] k = "description" -> "Description"
          [] OTHER -> "Status"]

\* the store field each canonical field of a Contact update is written to
ClientFieldOf ==
    [k \in {"firstName", "lastName", "email", "phone", "jobTitle"} |->
        CASE k = "firstName" -> "First Name"
          [] k = "lastName" -> "Last Name"
          [] k = "email" -> "Email"
          [] k = "phone" -> "Phone"
          [] OTHER -> "Role / Title"]

\* the store fields an update with the object `updates` may write
Writable(fieldOf, updates) == { fieldOf[k] : k \in KeySet(updates) \cap DOMAIN fieldOf }

\* from table to tableAfter only row id has changed, only in fields the
\* update object names and the mapping lists, and only to the values given
FrameOfUpdate(table, tableAfter, id, fieldOf, updates) ==
    /\ Len(tableAfter) = Len(table)
    /\ \A i \in 1..Len(table) : i # id => tableAfter[i] = table[i]
    /\ \A f \in DOMAIN table[id] :
        \/ tableAfter[id][f] = table[id][f]
        \/ /\ f \in Writable(fieldOf, updates)
           /\ \E k \in KeySet(updates) \cap DOMAIN fieldOf :
                fieldOf[k] = f /\ tableAfter[id][f] = Get(updates, k)

\* C28 (store update frame): a call of updateProject or updateClient
\* changes only the record it is given, only in store fields whose canonical
\* field is present in the partial update and listed in the mapping, and
\* only to the value given; the external id, the link fields and every
\* field omitted from the update keep their values.
C28_UpdateFrame ==
    [][\A p \in ProcIds :
        /\ inv[p].pc = "updateProject" /\ inv'[p].pc # "updateProject"
           => /\ FrameOfUpdate(projects, projects', The(inv[p].existing).id,
                               ProjectFieldOf, inv[p].updates)
              /\ UNCHANGED <<clients, companies>>
        /\ inv[p].pc = "updateClient" /\ inv'[p].pc # "updateClient"
           => /\ FrameOfUpdate(clients, clients', The(inv[p].existing).id,
                               ClientFieldOf, inv[p].updates)
              /\ UNCHANGED <<projects, companies>>]_vars

\* an update whose object named the budget, which no store field is mapped
\* to, beside the name has been written: the row has the Deal's name and
\* still has its external id and its contact link
C28_Witness ==
    \E p \in ProcIds :
        /\ Returned(p)
        /\ The(inv[p].result).action = "updated"
        /\ "updateProject" \notin inv[p].failed
        /\ The(inv[p].result).message
             = "Updated project with fields: name, budget, description"
        /\ projects[The(inv[p].result).projectId]["Project Name"]
             = Trim(The(inv[p].deal).name)
        /\ projects[The(inv[p].result).projectId]["HubSpot Deal ID"] = inv[p].hubspotDealId
        /\ projects[The(inv[p].result).projectId]["Contacts"] # <<>>

-----------------------------------------------------------------------------
(* Stage normalization *)

\* the native stage codes and their canonical stages
CanonicalStage ==
    [s \in {"appointmentscheduled", "qualifiedtobuy", "presentationscheduled",
            "decisionmakerboughtin", "contractsent", "closedwon", "closedlost"} |->
        CASE s = "appointmentscheduled" -> "New"
          [] s = "qualifiedtobuy" -> "Discovery"
          [] s = "presentationscheduled" -> "Proposal"
          [] s \in {"decisionmakerboughtin", "contractsent"} -> "Negotiation"
          [] s = "closedwon" -> "Closed Won"
          [] OTHER -> "Closed Lost"]

\* stage codes of custom pipelines, absent from the table
CustomStageCodes == {"customstage", "", "1234567", "constructor"}

\* the stage codes the function is tried on
StageCodes == DOMAIN CanonicalStage \cup StageIds \cup CustomStageCodes

\* the function gives the canonical stage for a code of the table and the
\* code itself for any other
NormalizedAsSpecified(code) ==
    mapHubSpotStageToReadable(code) =
        IF ToLowerCase(code) \in DOMAIN CanonicalStage
        THEN CanonicalStage[ToLowerCase(code)] ELSE code

\* C29 (stage normalization): mapHubSpotStageToReadable returns the
\* canonical stage for every native code of its table and the input string
\* unchanged for every other code; and a sync of a Deal whose stage is not
\* in the table does not end in `error` unless a call failed or the Deal
\* was not found.
C29_StageNormalization ==
    /\ \A code \in StageCodes : NormalizedAsSpecified(code)
    /\ \A p \in ProcIds :
        Returned(p) /\ ~IsNull(inv[p].deal) /\ inv[p].failed = {}
            /\ ToLowerCase(The(inv[p].deal).stageId) \notin DOMAIN CanonicalStage
        => The(inv[p].result).action # "error"

(***************************************************************************)
(* C30: fault isolation of the association resolution                      *)
(***************************************************************************)

\* the requests of the contact resolution and of the company resolution
ContactRequests == {"associations.contacts", "contacts.getById.1", "contacts.getById.2"}
CompanyRequests == {"associations.companies", "companies.getById"}

\* the deals HubSpot is asked for: those of the fetches, and one with two
\* associated contacts
FetchSources ==
    Sources("101") \cup
    { Deal("101", "closedwon", ContentA, <<TheContact, EditedContact>>, Some(TheCompany)) }

\* `deal` without its associations is a deal HubSpot can hold
HeldBare(deal) ==
    \E stageId \in { x \in StageIds : x = deal.stageId } :
        \E content \in { c \in DealContents : c.name = deal.name /\ c.amount = deal.amount } :
            [deal EXCEPT !.contacts = <<>>, !.company = Null]
                = Deal(deal.id, stageId, content, <<>>, Null)

\* the deals of Sources(deal.id) that differ from `deal`, a deal HubSpot can
\* hold, in their associations at most
SourcesAgreeing(deal) ==
    { [deal EXCEPT !.contacts = contacts, !.company = company] :
        contacts \in { <<>> } \cup { <<c>> : c \in AssociatedContacts },
        company \in {Null} \cup { Some(c) : c \in CompanyInputs } }

\* the contacts of the source whose own fetch does not fail
ContactsFetched(source, failing) ==
    KeepAt(source.contacts, 1,
           { i \in 1..Len(source.contacts) :
               ("contacts.getById." \o ToString(i)) \notin failing })

\* what fault isolation promises of one fetch whose deal request succeeds
FaultIsolated(source, failing) ==
    LET answer == getDealWithAssociations(source, failing)
        deal == The(answer)
    IN  /\ ~IsNull(answer)
        /\ [deal EXCEPT !.contacts = <<>>, !.company = Null]
             = [source EXCEPT !.contacts = <<>>, !.company = Null]
        /\ deal.company =
             IF failing \cap CompanyRequests = {} THEN source.company ELSE Null
        /\ deal.contacts =
             IF "associations.contacts" \in failing THEN <<>>
             ELSE ContactsFetched(source, failing)

\* fault isolation of every fetch of FetchSources, whichever requests other
\* than the deal request fail
EveryFetchFaultIsolated ==
    \A source \in FetchSources :
        \A failing \in SUBSET (GatewayCalls \ {"deals.getById"}) :
            FaultIsolated(source, failing)

\* C30: when the Deal itself is fetched, getDealWithAssociations returns the
\* Deal whatever else fails: a failed contact-association lookup gives empty
\* contacts, a failed contact fetch drops that contact only, a failed
\* company lookup or fetch gives an absent company, neither side's failure
\* changes the other side's answer, and the sync goes on with the Deal it
\* got instead of reporting the Deal as not found.
C30_AssociationsFaultIsolated ==
    /\ EveryFetchFaultIsolated
    /\ \A p \in ProcIds :
          (inv[p].pc # "idle" /\ ~Fetching(inv[p])
              /\ "deals.getById" \notin inv[p].degraded) =>
             /\ ~IsNull(inv[p].deal)
             /\ HeldBare(The(inv[p].deal))
             /\ \E source \in SourcesAgreeing(The(inv[p].deal)) :
                   /\ FaultIsolated(source, inv[p].degraded)
                   /\ inv[p].deal = getDealWithAssociations(source, inv[p].degraded)
             /\ (Returned(p) /\ inv[p].thrown = Undefined) =>
                   The(inv[p].result).message
                      # "Deal " \o inv[p].hubspotDealId \o " not found in HubSpot"

\* a sync whose fetch lost the contact-association lookup resolved the
\* company all the same, synced it and created the Project without contact
C30_Witness ==
    \E p \in ProcIds :
        /\ Returned(p)
        /\ "associations.contacts" \in inv[p].degraded
        /\ The(inv[p].deal).contacts = <<>>
        /\ ~IsNull(The(inv[p].deal).company)
        /\ ~IsNull(inv[p].companyResult)
        /\ The(inv[p].companyResult).success
        /\ The(inv[p].result).action = "created"

-----------------------------------------------------------------------------
(* Primary contact *)

\* the fan-out bound of the contact resolution
MaxContactFetches == 5

\* association lists of a Deal in HubSpot: none, one, two and six contacts
AssociationLists ==
    { <<>>, <<TheContact>>,
      <<TheContact, [TheContact EXCEPT !.id = "c2", !.firstName = "Jane"]>>,
      [i \in 1..(MaxContactFetches + 1) |->
          [TheContact EXCEPT !.id = "c" \o ToString(i)]] }

\* the contact requests that can be made to fail
ContactFetchFailures == SUBSET {"contacts.getById.1", "contacts.getById.2"}

\* the primary contact of the Deal the fetch answers is the first of the
\* association list, and no more than five contacts were fetched
FirstAssociatedIsPrimary(to, failing) ==
    LET source == Deal("101", "closedwon", ContentA, to, Some(TheCompany))
        deal == The(getDealWithAssociations(source, failing))
    IN  /\ Len(deal.contacts) <= MaxContactFetches
        /\ \A i \in 1..Len(deal.contacts) :
              \E j \in 1..MaxContactFetches :
                  j <= Len(to) /\ deal.contacts[i] = to[j]
        /\ deal.contacts # <<>> => deal.contacts[1] = to[1]

\* C31 (primary contact): the contact synced in Tier 2 and linked to the
\* Project is the first contact of the Deal's association list in HubSpot,
\* and at most 5 associated contacts are fetched for one Deal.
C31_PrimaryContact ==
    /\ \A to \in AssociationLists : \A failing \in ContactFetchFailures :
          FirstAssociatedIsPrimary(to, failing)
    /\ \A p \in ProcIds :
          /\ (inv[p].pc \in {"findClientByHubSpotContactId", "createClient", "updateClient"}) =>
                The(inv[p].contact).id = The(inv[p].deal).contacts[1].id
          /\ (Returned(p) /\ The(inv[p].result).action = "created"
                /\ The(inv[p].result).clientId # NoId) =>
                /\ projects[The(inv[p].result).projectId]["Contacts"]
                      = <<The(inv[p].result).clientId>>
                /\ clients[The(inv[p].result).clientId]["HubSpot Contact ID"]
                      = The(inv[p].deal).contacts[1].id

-----------------------------------------------------------------------------
(* The webhook route: freshness window *)

\* C32 (freshness window): a notification whose timestamp header differs
\* from the server's clock by more than 300000 ms, earlier or later, is
\* answered 401 without the sync engine being invoked, whatever its
\* signature; a notification with a valid signature and a timestamp no more
\* than 300000 ms off is not rejected.
C32_FreshnessWindow ==
    \A p \in ProcIds :
        ServingWebhook(p) =>
            /\ req[p].freshness = "stale" =>
                  /\ req[p].pc = "responded"
                  /\ req[p].status = 401
                  /\ EngineNotInvoked(p)
            /\ (req[p].freshness = "fresh" /\ req[p].authentic
                    /\ cfg.hubspotSecret # "") =>
                  /\ req[p].status # 401
                  /\ IsNull(req[p].rejected)

\* a notification signed with the configured secret whose timestamp lies
\* 300001 ms in the future has been answered 401
C32_Witness ==
    \E p \in ProcIds :
        /\ cfg.hubspotSecret = "s3cret"
        /\ req[p].freshness = "stale"
        /\ req[p].authentic
        /\ The(req[p].rejected).signedWith = Some("s3cret")
        /\ The(The(req[p].rejected).timestamp)
              = The(req[p].rejected).now + ReplayWindowMs + 1
        /\ req[p].status = 401
        /\ EngineNotInvoked(p)

-----------------------------------------------------------------------------
(* Updates disabled: existing records of all three tiers *)

\* the calls that rewrite fields of an existing Company, Client or Project
UpdateCalls == {"updateCompany", "updateClient", "updateProject"}

\* C33 (updates disabled, all tiers): with config.webhooks.enableUpdates
\* false, a Deal sync issues no update call on an existing Company, Client
\* or Project record.
C33_UpdatesDisabledAllTiers ==
    ~cfg.enableUpdates =>
        \A p \in ProcIds : \A c \in UpdateCalls : CountOf(inv[p].calls, c) = 0

-----------------------------------------------------------------------------
(* Result shape of syncDealToProject *)

\* C34 (result shape): in every result syncDealToProject returns, success
\* is true exactly when action is not `error`; dealId is the id passed in;
\* projectId is present, and names a Project row of that Deal, whenever
\* action is `created` or `updated`; and clientId and companyId, when
\* present, are the target ids Tier 2 and Tier 1 of the same invocation
\* produced.
C34_ResultShape ==
    \A p \in ProcIds :
        Returned(p) =>
            LET r == The(inv[p].result)
            IN  /\ r.action \in {"created", "updated", "skipped", "error"}
                /\ r.success <=> r.action # "error"
                /\ r.dealId = inv[p].hubspotDealId
                /\ r.action \in {"created", "updated"} =>
                      /\ r.projectId # NoId
                      /\ r.projectId \in 1..Len(projects)
                      /\ projects[r.projectId]["HubSpot Deal ID"] = inv[p].hubspotDealId
                /\ r.clientId # NoId => r.clientId = ProducedClientId(inv[p])
                /\ r.companyId # NoId => r.companyId = ProducedCompanyId(inv[p])

\* a sync has returned `updated` with the ids of the Project, of the Client
\* Tier 2 produced and of the Company Tier 1 produced
C34_Witness ==
    \E p \in ProcIds :
        /\ Returned(p)
        /\ The(inv[p].result).action = "updated"
        /\ The(inv[p].result).success
        /\ The(inv[p].result).projectId # NoId
        /\ The(inv[p].result).clientId # NoId
        /\ The(inv[p].result).clientId = ProducedClientId(inv[p])
        /\ The(inv[p].result).companyId # NoId
        /\ The(inv[p].result).companyId = ProducedCompanyId(inv[p])

-----------------------------------------------------------------------------
(* Convergence of the update path *)

\* the update object the next sync of the same unchanged Deal would build
\* from the Project as findProjectByHubSpotDealId reads it now
NextUpdates(p) ==
    buildProjectUpdates(The(inv[p].deal),
                        The(findProjectByHubSpotDealId(inv[p].hubspotDealId)))

\* C35 (convergence of the update path): for every configuration of
\* syncable fields and every Deal, once a sync has returned `updated`, the
\* sync of the same unchanged Deal that follows immediately finds the
\* Project and has nothing to update: it returns `skipped`.
C35_UpdateConverges ==
    \A p \in ProcIds :
        (Returned(p) /\ The(inv[p].result).action = "updated") =>
            /\ ~IsNull(findProjectByHubSpotDealId(inv[p].hubspotDealId))
            /\ updatesEmpty(NextUpdates(p))

-----------------------------------------------------------------------------
(* One Company and one Contact record per source id *)

\* the Company rows and the Client rows that carry a source id
CompanyRowsOf(hubspotCompanyId) ==
    { i \in 1..Len(companies) : companies[i]["HubSpot Company ID"] = hubspotCompanyId }
ClientRowsOf(hubspotContactId) ==
    { i \in 1..Len(clients) : clients[i]["HubSpot Contact ID"] = hubspotContactId }

\* C36 (one record per source id): as long as syncs do not overlap, whatever
\* failed in earlier syncs and whichever Deals share a company or a primary
\* contact, the store holds at most one Company row per HubSpot company id
\* and at most one Client row per HubSpot contact id.
C36_OneRecordPerSourceId ==
    /\ \A c \in CompanyInputs : Cardinality(CompanyRowsOf(c.id)) <= 1
    /\ \A c \in ContactInputs : Cardinality(ClientRowsOf(c.id)) <= 1

-----------------------------------------------------------------------------
(* Skipped syncs and the Project record *)

\* C37 (skipped writes nothing): a sync that returns `skipped` (updates
\* disabled, no syncable field changed, or a stage that does not trigger
\* creation) has issued no create, update or link call on a Project record.
C37_SkippedWritesNoProject ==
    \A p \in ProcIds :
        (Returned(p) /\ The(inv[p].result).action = "skipped") =>
            \A c \in ProjectWriteCalls \cup {"createProject"} :
                CountOf(inv[p].calls, c) = 0

-----------------------------------------------------------------------------
(* Demo seeding: links by identity *)

\* the row of the table whose field holds the value, if there is one
RowsWith(table, field, value) == { k \in 1..Len(table) : table[k][field] = value }

\* the link cell holds the row with that value, or nothing if no row has it
LinksTo(cell, table, field, value) ==
    IF RowsWith(table, field, value) = {} THEN cell = <<>>
    ELSE \E k \in RowsWith(table, field, value) : cell = <<table[k]["id"]>>

\* C38 (demo seeding links by identity): whichever company creations
\* failed, every contact a seeding creates is linked, at its creation, to
\* the Company record named DEMO_COMPANIES[contact.companyIndex], or to none
\* when that company has no record, and every project a seeding creates is
\* linked to the Contact record of DEMO_CONTACTS[project.contactIndex], or to
\* none when that contact has no record.
C38_SeedLinksByIdentity ==
    [][ /\ Len(clients') > Len(clients) =>
             \A i \in 1..Len(DEMO_CONTACTS) :
                clients'[Len(clients')]["Email"] = DEMO_CONTACTS[i].email =>
                   LinksTo(clients'[Len(clients')]["Company"], companies, "Company Name",
                           DEMO_COMPANIES[DEMO_CONTACTS[i].companyIndex + 1].name)
        /\ Len(projects') > Len(projects) =>
             \A i \in 1..Len(DEMO_PROJECTS) :
                projects'[Len(projects')]["Project Name"] = DEMO_PROJECTS[i].name =>
                   LinksTo(projects'[Len(projects')]["Contacts"], clients, "Email",
                           DEMO_CONTACTS[DEMO_PROJECTS[i].contactIndex + 1].email) ]_vars

====
